---- MODULE Spec2Model ----
(***************************************************************************)
(* NepremicnineMaps: the Netlify functions that scrape listings            *)
(* (getProperties) and geocode their towns (getPropsLocation), modelled    *)
(* as state machines.                                                      *)
(*                                                                         *)
(* A JavaScript string is a sequence of one-character strings.  A value    *)
(* that is null or undefined is the one-element sequence Nullish (the code *)
(* never tells the two apart: it uses `x || ""`, `x != null`, `x ?? null`).*)
(* A JavaScript number is a record: Num(n), NaN or Infinity; the null of a *)
(* result is NullVal.                                                      *)
(***************************************************************************)
EXTENDS Integers, Sequences, FiniteSets, TLC

VARIABLES
    GEO_CACHE,    \* the module-level Map: trimmed town -> {lat, lon}
    call,         \* one direct invocation of geocodeTown
    cacheAtCall,  \* history: GEO_CACHE when that invocation started
    nullEnded,    \* history: towns some finished invocation resolved to null
    batch,        \* one invocation of geocodeTownsAndAttach
    lookups,      \* the geocodeTown invocations of that batch, per unique town
    h,            \* one invocation of the getProperties handler
    reqs,         \* the geocodeTown invocations of concurrent requests
    g,            \* one invocation of the geocoding handler
    GEO_CACHE_getProperties,
                  \* the module-level Map of the combined getProperties
    app           \* the App component: its state and what it rendered

geoVars == <<call, cacheAtCall, nullEnded, reqs>>

batchVars == <<batch, lookups>>

scrapeVars == <<h, GEO_CACHE_getProperties>>

endpointVars == <<g>>

mapVars == <<app>>

vars == <<GEO_CACHE, geoVars, batchVars, scrapeVars, endpointVars, mapVars>>

----------------------------------------------------------------------------
(* Bounds *)

\* the longest town of the model has MaxCommas commas
MaxCommas == 2

\* a batch has at most MaxProps listings
MaxProps == 9

\* a scraped page has at most MaxCards listing cards
MaxCards == 2

\* at most MaxRequests requests are served at the same time
MaxRequests == 2

\* the body of a request to the geocoding handler holds at most MaxBody
\* listings
MaxBody == 3

\* the listings of an answer the map renders
MaxMarkers == 3

----------------------------------------------------------------------------
(* JavaScript values *)

Nullish == <<"nullish">>

Num(n) == [k |-> "num", n |-> n]
NaN == [k |-> "NaN", n |-> 0]
Infinity == [k |-> "Infinity", n |-> 0]
NullVal == [k |-> "null", n |-> 0]

IsNaN(x) == x.k = "NaN"

Digits == <<"0", "1", "2", "3", "4", "5", "6", "7", "8", "9">>

IsDigit(c) == \E d \in 1..10 : Digits[d] = c

DigitVal(c) == (CHOOSE d \in 1..10 : Digits[d] = c) - 1

RECURSIVE TrimStart(_)
TrimStart(s) ==
    IF s # <<>> /\ Head(s) = " " THEN TrimStart(Tail(s)) ELSE s

RECURSIVE TrimEnd(_)
TrimEnd(s) ==
    IF s # <<>> /\ s[Len(s)] = " " THEN TrimEnd(SubSeq(s, 1, Len(s) - 1)) ELSE s

\* String.prototype.trim
Trim(s) == TrimEnd(TrimStart(s))

\* the number of leading decimal digits of s
RECURSIVE DigitPrefix(_)
DigitPrefix(s) ==
    IF s # <<>> /\ IsDigit(Head(s)) THEN 1 + DigitPrefix(Tail(s)) ELSE 0

RECURSIVE DecimalValue(_)
DecimalValue(s) ==
    IF s = <<>> THEN 0
    ELSE 10 * DecimalValue(SubSeq(s, 1, Len(s) - 1)) + DigitVal(s[Len(s)])

InfinityText == <<"I", "n", "f", "i", "n", "i", "t", "y">>

\* parseFloat on whole-degree texts: leading blanks are skipped, the longest
\* numeric prefix is the value, "Infinity" parses to Infinity, anything else
\* is NaN
ParseFloat(s) ==
    LET t == TrimStart(s)
        n == DigitPrefix(t)
    IN  IF n > 0 THEN Num(DecimalValue(SubSeq(t, 1, n)))
        ELSE IF Len(t) >= 8 /\ SubSeq(t, 1, 8) = InfinityText THEN Infinity
        ELSE NaN

\* String.prototype.lastIndexOf for a one-character needle (0-based, -1 if
\* absent)
LastIndexOf(s, ch) ==
    LET I == {i \in 1..Len(s) : s[i] = ch}
    IN  IF I = {} THEN -1 ELSE (CHOOSE i \in I : \A j \in I : j <= i) - 1

\* String.prototype.slice(0, to)
Slice(s, to) == SubSeq(s, 1, to)

----------------------------------------------------------------------------
(* The place-search API *)

NoTown == <<"N", "o", " ", "t", "o", "w", "n">>

SloveniaSuffix == <<",", " ", "S", "l", "o", "v", "e", "n", "i", "a">>

Match(lat, lon) == [lat |-> lat, lon |-> lon]

ArrayData(items) == [isArray |-> TRUE, items |-> items]

\* a JSON body that is not an array (an error object)
ObjectData == [isArray |-> FALSE, items |-> <<>>]

\* what one fetch + res.json() of queryNominatim can give
FetchReject == [kind |-> "reject", data |-> ObjectData]
HttpError == [kind |-> "http-error", data |-> ObjectData]
Ok(data) == [kind |-> "ok", data |-> data]

Kranj == Ok(ArrayData(<<Match(<<"4", "6">>, <<"1", "4">>)>>))
Koper == Ok(ArrayData(<<Match(<<"4", "5">>, <<"1", "3">>)>>))
NoLat == Ok(ArrayData(<<Match(Nullish, <<"1", "4">>)>>))
BadLon == Ok(ArrayData(<<Match(<<"4", "6">>, <<"a", "b", "c">>)>>))
InfLat == Ok(ArrayData(<<Match(InfinityText, <<"1", "4">>)>>))
EmptyArray == Ok(ArrayData(<<>>))
NotArray == Ok(ObjectData)

Responses ==
    {FetchReject, HttpError, EmptyArray, NotArray, Kranj, Koper, NoLat, BadLon,
     InfLat}

----------------------------------------------------------------------------
(* geocodeTown *)

NullCoord == [lat |-> NullVal, lon |-> NullVal]

\* townRaw || ""
OrEmpty(townRaw) == IF townRaw = Nullish THEN <<>> ELSE townRaw

\* a skip that forgets the placeholder
SkipTownEmptyOnly(town) == town = <<>>

\* !town || town === "No town"
SkipTown(town) == town = <<>> \/ town = NoTown

\* GEO_CACHE.has(town)
CacheHas(cache, town) == town \in DOMAIN cache

\* a set that starts a new Map holding only the entry it writes
CacheSetFresh(cache, town, value) == [t \in {town} |-> value]

\* GEO_CACHE.set(town, value)
CacheSet(cache, town, value) ==
    [t \in DOMAIN cache \cup {town} |-> IF t = town THEN value ELSE cache[t]]

\* a query that forgets `if (!res.ok) throw`
QueryThrowsRejectOnly(resp) == resp.kind = "reject"

\* queryNominatim throws when fetch rejects or the status is not ok
QueryThrows(resp) == resp.kind # "ok"

\* an emptiness test that forgets Array.isArray
IsEmptyDataLengthOnly(data) == data.isArray /\ Len(data.items) = 0

\* !Array.isArray(data) || data.length === 0
IsEmptyData(data) == ~data.isArray \/ Len(data.items) = 0

\* a result that validates the latitude only
ResultOfLatOnly(data) ==
    IF /\ data.isArray
       /\ Len(data.items) > 0
       /\ data.items[1].lat # Nullish
       /\ ~IsNaN(ParseFloat(data.items[1].lat))
    THEN [lat |-> ParseFloat(data.items[1].lat),
          lon |-> ParseFloat(data.items[1].lon)]
    ELSE NullCoord

\* the conditional expression that builds `result`
ResultOf(data) ==
    IF /\ data.isArray
       /\ Len(data.items) > 0
       /\ data.items[1].lat # Nullish
       /\ data.items[1].lon # Nullish
       /\ ~IsNaN(ParseFloat(data.items[1].lat))
       /\ ~IsNaN(ParseFloat(data.items[1].lon))
    THEN [lat |-> ParseFloat(data.items[1].lat),
          lon |-> ParseFloat(data.items[1].lon)]
    ELSE NullCoord

\* an invocation of geocodeTown: where it waits, its locals, the queries it
\* has issued and the answers it got, and how it ended
IdleLookup ==
    [pc |-> "idle", raw |-> <<>>, town |-> <<>>, townToTry |-> <<>>,
     calls |-> <<>>, resps |-> <<>>, ret |-> NullCoord, outcome |-> "none"]

\* the invocation issues queryNominatim(query, label) and awaits it
Issue(lk, query, label) ==
    [lk EXCEPT !.pc = label, !.calls = Append(@, query)]

\* return value
Return(lk, value) == [lk EXCEPT !.pc = "done", !.ret = value, !.outcome = "returned"]

\* stripping that starts from the suffixed query
StripStartSuffixed(town) == town \o SloveniaSuffix

\* let townToTry = town
StripStart(town) == town

\* a lookup that caches the coordinates it found, but no null result
ResolveFoundOnly(lk, data, cache) ==
    [lk |-> Return(lk, ResultOf(data)),
     cache |-> IF ResultOf(data) = NullCoord THEN cache
               ELSE CacheSet(cache, lk.town, ResultOf(data))]

\* a lookup that caches its result under the last query it stripped
ResolveUnderTownToTry(lk, data, cache) ==
    [lk |-> Return(lk, ResultOf(data)),
     cache |-> CacheSet(cache, lk.townToTry, ResultOf(data))]

\* GEO_CACHE.set(town, result); return result
Resolve(lk, data, cache) ==
    [lk |-> Return(lk, ResultOf(data)),
     cache |-> CacheSet(cache, lk.town, ResultOf(data))]

\* a catch that returns the fallback without caching it
CatchNoCache(lk, cache) == [lk |-> Return(lk, NullCoord), cache |-> cache]

\* a catch that logs and rethrows
CatchRethrow(lk, cache) ==
    [lk |-> [lk EXCEPT !.pc = "done", !.outcome = "threw"], cache |-> cache]

\* catch (err): GEO_CACHE.set(town, fallback); return fallback
Catch(lk, cache) ==
    [lk |-> Return(lk, NullCoord), cache |-> CacheSet(cache, lk.town, NullCoord)]

\* the while loop that strips the trailing ", part"
Progressive(lk, data, cache) ==
    IF IsEmptyData(data)
    THEN LET lastCommaIndex == LastIndexOf(lk.townToTry, ",")
         IN  IF lastCommaIndex = -1
             THEN Resolve(lk, data, cache)
             ELSE [lk |-> Issue([lk EXCEPT !.townToTry = Slice(@, lastCommaIndex)],
                                Slice(lk.townToTry, lastCommaIndex),
                                "progressive"),
                   cache |-> cache]
    ELSE Resolve(lk, data, cache)

\* a start that looks the cache up under the untrimmed town
GeocodeStartRawKey(townRaw, cache) ==
    LET town == Trim(OrEmpty(townRaw))
        lk == [IdleLookup EXCEPT !.raw = townRaw, !.town = town]
    IN  IF SkipTown(town) THEN Return(lk, NullCoord)
        ELSE IF CacheHas(cache, OrEmpty(townRaw))
        THEN Return(lk, cache[OrEmpty(townRaw)])
        ELSE Issue(lk, town, "plain")

\* geocodeTown up to its first await: the skip, the cache hit, the plain query
GeocodeStart(townRaw, cache) ==
    LET town == Trim(OrEmpty(townRaw))
        lk == [IdleLookup EXCEPT !.raw = townRaw, !.town = town]
    IN  IF SkipTown(town) THEN Return(lk, NullCoord)
        ELSE IF CacheHas(cache, town) THEN Return(lk, cache[town])
        ELSE Issue(lk, town, "plain")

\* geocodeTown from the answer of the query it awaits to its next await or
\* its return
GeocodeResume(lk, resp, cache) ==
    LET got == [lk EXCEPT !.resps = Append(@, resp)]
    IN  IF QueryThrows(resp) THEN Catch(got, cache)
        ELSE IF lk.pc = "plain"
        THEN IF IsEmptyData(resp.data)
             THEN [lk |-> Issue([got EXCEPT !.townToTry = StripStart(lk.town)],
                                lk.town \o SloveniaSuffix, "with-slovenia"),
                   cache |-> cache]
             ELSE Resolve(got, resp.data, cache)
        ELSE Progressive(got, resp.data, cache)

Waiting(lk) == lk.pc \in {"plain", "with-slovenia", "progressive"}

----------------------------------------------------------------------------
(* A caller that invokes geocodeTown, one invocation after the other, in   *)
(* one warm process                                                        *)

Segments == <<"A", "B", "C", "D", "E">>

\* "A", "A, B", "A, B, C", ...
RECURSIVE TownOf(_)
TownOf(c) ==
    IF c = 0 THEN <<Segments[1]>>
    ELSE TownOf(c - 1) \o <<",", " ", Segments[c + 1]>>

RawTowns ==
    {Nullish, <<>>, <<" ", " ">>, NoTown, <<" ">> \o NoTown \o <<" ">>,
     <<" ">> \o TownOf(0) \o <<" ">>}
        \cup {TownOf(c) : c \in 0..MaxCommas}

NoResponse ==
    [statusCode |-> 0, kind |-> "none", headers |-> "none", body |-> "none",
     error |-> "none", properties |-> "absent", listings |-> <<>>,
     count |-> 0]

\* an invocation of a getProperties handler: the variant that runs, the
\* method and whether the request carries the url parameter, where the
\* handler waits, its browser handle and open pages, whether the document
\* has loaded and the cards it renders, whether page.evaluate was called and
\* the listings it returned, the error the handler is unwinding, whether a
\* close failed, and the response
IdleHandler ==
    [variant |-> "none", httpMethod |-> "none", url |-> FALSE, pc |-> "idle",
     browser |-> "none", pages |-> 0, loaded |-> FALSE, page |-> <<>>,
     evaluated |-> FALSE, properties |-> <<>>, error |-> "none",
     closeFailed |-> FALSE, resp |-> NoResponse]

GeoNoResponse ==
    [statusCode |-> 0, kind |-> "none", headers |-> "none", body |-> "none",
     error |-> "none", hasProperties |-> FALSE, properties |-> <<>>]

\* an invocation of the geocoding handler: the method and the body of the
\* event, where the handler waits, and the response
IdleGeo ==
    [pc |-> "idle", httpMethod |-> "none", body |-> [kind |-> "none", n |-> 0],
     resp |-> GeoNoResponse]

\* the App component before its fetch has settled: useState([]),
\* useState(true), useState(null), and nothing rendered but the loading text
IdleApp ==
    [properties |-> <<>>, loading |-> TRUE, error |-> FALSE,
     view |-> "loading", fanned |-> <<>>, markers |-> <<>>]

IdleBatch ==
    [pc |-> "idle", properties |-> <<>>, uniqueTowns |-> <<>>, i |-> 0,
     townCoordMap |-> <<>>, out |-> <<>>, outcome |-> "none",
     again |-> FALSE, before |-> <<>>]

Init ==
    /\ GEO_CACHE = <<>>
    /\ call = IdleLookup
    /\ cacheAtCall = <<>>
    /\ nullEnded = {}
    /\ batch = IdleBatch
    /\ lookups = <<>>
    /\ h = IdleHandler
    /\ reqs = [r \in 1..MaxRequests |-> IdleLookup]
    /\ g = IdleGeo
    /\ GEO_CACHE_getProperties = <<>>
    /\ app = IdleApp

NullEndedAfter(lk) ==
    IF lk.pc = "done" /\ lk.ret = NullCoord /\ lk.calls # <<>>
    THEN nullEnded \cup {lk.town} ELSE nullEnded

\* the caller invokes geocodeTown(townRaw, log)
CallGeocodeTown ==
    /\ ~Waiting(call)
    /\ \E townRaw \in RawTowns :
          call' = GeocodeStart(townRaw, GEO_CACHE)
    /\ cacheAtCall' = GEO_CACHE
    /\ UNCHANGED <<GEO_CACHE, nullEnded, reqs, batchVars, scrapeVars, endpointVars, mapVars>>

\* the awaited query settles
QuerySettles ==
    /\ Waiting(call)
    /\ \E resp \in Responses :
          LET next == GeocodeResume(call, resp, GEO_CACHE)
          IN  /\ call' = next.lk
              /\ GEO_CACHE' = next.cache
              /\ nullEnded' = NullEndedAfter(next.lk)
    /\ UNCHANGED <<cacheAtCall, reqs, batchVars, scrapeVars, endpointVars, mapVars>>

Next == CallGeocodeTown \/ QuerySettles

Spec == Init /\ [][Next]_vars

\* the place-search API answers every query, or the fetch fails: an awaited
\* query settles
SpecLive == Spec /\ WF_vars(QuerySettles)

----------------------------------------------------------------------------
(* What the claims speak of, stated without the operators of geocodeTown *)

Failures == {FetchReject, HttpError}

\* answers the code takes for "no result": an empty array, or no array
EmptyAnswers == {EmptyArray, NotArray}

\* answers with at least one match
NonEmptyAnswers == {Kranj, Koper, NoLat, BadLon, InfLat}

\* the coordinates an answer carries, when both parse to a number
CoordsIn(resp) ==
    IF resp = Kranj THEN [lat |-> Num(46), lon |-> Num(14)]
    ELSE IF resp = Koper THEN [lat |-> Num(45), lon |-> Num(13)]
    ELSE IF resp = InfLat THEN [lat |-> Infinity, lon |-> Num(14)]
    ELSE NullCoord

\* inputs that name no town
NoTownInputs ==
    {Nullish, <<>>, <<" ", " ">>, NoTown, <<" ">> \o NoTown \o <<" ">>}

\* the town an input of RawTowns names
TownNamed(townRaw) ==
    IF townRaw \in {Nullish, <<>>, <<" ", " ">>} THEN <<>>
    ELSE IF townRaw = <<" ">> \o NoTown \o <<" ">> THEN NoTown
    ELSE IF townRaw = <<" ">> \o TownOf(0) \o <<" ">> THEN TownOf(0)
    ELSE townRaw

Commas(town) == Cardinality({i \in 1..Len(town) : town[i] = ","})

\* the whole retry chain of a town TownOf(c): plain, suffixed, then the
\* shorter prefixes of the original town
Candidates(town) ==
    <<town, town \o SloveniaSuffix>>
        \o [i \in 1..Commas(town) |-> TownOf(Commas(town) - i)]

IsPrefix(s, t) == Len(s) <= Len(t) /\ s = SubSeq(t, 1, Len(s))

Started == call.pc # "idle"

Done == call.pc = "done"

\* C2: for a town already in the cache (with a coordinate or with a null
\* result) geocodeTown returns exactly the cached value, issues no external
\* search call and leaves the cache unchanged.
C2_CachedTownServedFromCache ==
    (Started /\ TownNamed(call.raw) \in DOMAIN cacheAtCall) =>
        /\ Done
        /\ call.outcome = "returned"
        /\ call.ret = cacheAtCall[TownNamed(call.raw)]
        /\ call.calls = <<>>
        /\ GEO_CACHE = cacheAtCall

C2_Witness ==
    /\ Done
    /\ call.raw = <<" ">> \o TownOf(0) \o <<" ">>
    /\ TownOf(0) \in DOMAIN cacheAtCall
    /\ call.ret = [lat |-> Num(45), lon |-> Num(13)]
    /\ TownOf(1) \in DOMAIN cacheAtCall
    /\ cacheAtCall[TownOf(1)] = NullCoord

\* C3: failed lookups are cached: once an invocation for a town ended with a
\* null result after querying (all attempts empty, or a failed query), every
\* later invocation for that town returns {lat: null, lon: null} without any
\* new external call.
C3_FailedLookupsAreCached ==
    [][(~Waiting(call) /\ TownNamed(call'.raw) \in nullEnded) =>
          /\ call'.pc = "done"
          /\ call'.outcome = "returned"
          /\ call'.ret = NullCoord
          /\ call'.calls = <<>>
          /\ GEO_CACHE' = GEO_CACHE]_vars

C3_Witness ==
    /\ Done
    /\ call.town = TownOf(1)
    /\ call.calls = <<>>
    /\ call.ret = NullCoord
    /\ {TownOf(0), TownOf(1)} \subseteq nullEnded

\* C4: geocodeTown called with a town that is empty, whitespace-only, missing
\* or "No town" after trimming returns {lat: null, lon: null}, issues no
\* external search call and leaves the cache unchanged: no entry is ever
\* written for such a town.
C4_NoTownIsSkipped ==
    /\ (Started /\ call.raw \in NoTownInputs) =>
          /\ Done
          /\ call.outcome = "returned"
          /\ call.ret = NullCoord
          /\ call.calls = <<>>
          /\ GEO_CACHE = cacheAtCall
    /\ <<>> \notin DOMAIN GEO_CACHE
    /\ NoTown \notin DOMAIN GEO_CACHE

C4_Witness ==
    /\ Done
    /\ call.raw = <<" ">> \o NoTown \o <<" ">>
    /\ GEO_CACHE # <<>>

\* C5: for an uncached town the first query is the plain trimmed town and
\* the second, issued only when the plain answer is empty, is the town with
\* the suffix ", Slovenia"; a non-empty plain answer ends the chain after one
\* query; when the plain answer is empty and the suffix query succeeds, the
\* coordinates returned are those of the suffix answer and no stripped query
\* is issued.
C5_PlainThenSuffix ==
    (call.calls # <<>>) =>
        /\ call.calls[1] = TownNamed(call.raw)
        /\ Len(call.calls) >= 2 =>
              /\ call.calls[2] = TownNamed(call.raw) \o SloveniaSuffix
              /\ call.resps[1] \in EmptyAnswers
        /\ (call.resps # <<>> /\ call.resps[1] \in EmptyAnswers) =>
              Len(call.calls) >= 2
        /\ (call.resps # <<>> /\ call.resps[1] \in NonEmptyAnswers) =>
              /\ Done
              /\ Len(call.calls) = 1
        /\ (Len(call.resps) >= 2 /\ call.resps[2] \in {Kranj, Koper}) =>
              /\ Done
              /\ Len(call.calls) = 2
              /\ call.ret = CoordsIn(call.resps[2])
              /\ GEO_CACHE[TownNamed(call.raw)] = CoordsIn(call.resps[2])

C5_Witness ==
    /\ Done
    /\ call.town = TownOf(1)
    /\ call.resps = <<NotArray, Koper>>
    /\ call.ret = [lat |-> Num(45), lon |-> Num(13)]

\* C6: when the plain and the suffixed answer are both empty, geocodeTown
\* strips the last comma-delimited segment from the original town (not from
\* the suffixed string), one segment at a time, and queries each shorter
\* prefix in turn; it stops at the first non-empty answer or when no comma
\* remains.  For "A, B, C" with only "A" succeeding the queries are exactly
\* "A, B, C", "A, B, C, Slovenia", "A, B", "A", and the result is A's
\* coordinates.
C6_ProgressiveStripping ==
    /\ IsPrefix(call.calls, Candidates(TownNamed(call.raw)))
    /\ \A i \in 1..Len(call.calls) - 1 : call.resps[i] \in EmptyAnswers
    /\ (Len(call.resps) = Len(call.calls) /\ call.calls # <<>>) =>
          \/ call.resps[Len(call.resps)] \in EmptyAnswers
                /\ Len(call.calls) = Len(Candidates(TownNamed(call.raw)))
          \/ call.resps[Len(call.resps)] \notin EmptyAnswers
    /\ (call.raw = <<"A", ",", " ", "B", ",", " ", "C">>
          /\ call.resps = <<EmptyArray, EmptyArray, EmptyArray, Kranj>>) =>
          /\ call.calls = << <<"A", ",", " ", "B", ",", " ", "C">>,
                             <<"A", ",", " ", "B", ",", " ", "C">>
                                 \o SloveniaSuffix,
                             <<"A", ",", " ", "B">>,
                             <<"A">> >>
          /\ Done
          /\ call.ret = [lat |-> Num(46), lon |-> Num(14)]

C6_Witness ==
    /\ Done
    /\ call.raw = <<"A", ",", " ", "B", ",", " ", "C">>
    /\ call.resps = <<EmptyArray, EmptyArray, EmptyArray, Kranj>>
    /\ Len(call.calls) = 4

\* C7 as stated: a result is accepted only if latitude and longitude of its
\* first match both parse as finite numbers, and a non-empty result whose
\* first match has a missing or unparsable latitude or longitude is treated
\* as empty, so the fallback chain goes on until it is exhausted.
C7_BadMatchContinuesFallback ==
    (Done /\ call.calls # <<>>) =>
        /\ call.ret # NullCoord =>
              call.ret.lat.k = "num" /\ call.ret.lon.k = "num"
        /\ call.resps[Len(call.resps)] \in {NoLat, BadLon} =>
              Len(call.calls) = Len(Candidates(TownNamed(call.raw)))

\* C7 (amended): coordinates are returned only if the first match of the
\* last answer has a latitude and a longitude that are both present and that
\* parseFloat turns into something other than NaN (Infinity passes); a
\* non-empty answer whose first match has a missing or unparsable latitude
\* or longitude is not treated as empty: it ends the fallback chain and
\* geocodeTown resolves to {null, null}, which it caches.
C7_BadMatchEndsChainWithNull ==
    (call.resps # <<>>) =>
        LET last == call.resps[Len(call.resps)]
        IN  /\ (Done /\ call.ret # NullCoord) =>
                  /\ last \in {Kranj, Koper, InfLat}
                  /\ call.ret = CoordsIn(last)
            /\ last \in {NoLat, BadLon} =>
                  /\ Done
                  /\ Len(call.calls) = Len(call.resps)
                  /\ call.ret = NullCoord
                  /\ GEO_CACHE[TownNamed(call.raw)] = NullCoord

C7_Witness ==
    /\ Done
    /\ call.town = TownOf(1)
    /\ call.resps = <<EmptyArray, BadLon>>
    /\ call.ret = NullCoord

\* C8: geocodeTown never raises to its caller: when an external search call
\* fails (network error or non-success status) at any position of the chain,
\* the call returns {lat: null, lon: null} and the cache holds {lat: null,
\* lon: null} under the trimmed town; the entries of other towns are left as
\* they were.
C8_NeverRaises ==
    /\ call.outcome # "threw"
    /\ Done => call.outcome = "returned"
    /\ (\E i \in 1..Len(call.resps) : call.resps[i] \in Failures) =>
          /\ Done
          /\ call.ret = NullCoord
          /\ TownNamed(call.raw) \in DOMAIN GEO_CACHE
          /\ GEO_CACHE[TownNamed(call.raw)] = NullCoord
    /\ \A t \in DOMAIN cacheAtCall :
          /\ t \in DOMAIN GEO_CACHE
          /\ (Started /\ t # TownNamed(call.raw)) => GEO_CACHE[t] = cacheAtCall[t]

C8_Witness ==
    /\ Done
    /\ call.town = TownOf(1)
    /\ call.resps = <<EmptyArray, NotArray, HttpError>>
    /\ TownOf(0) \in DOMAIN cacheAtCall
    /\ GEO_CACHE[TownOf(0)] = [lat |-> Num(46), lon |-> Num(14)]

\* C9 as stated: a failed search call is recovered for that attempt only:
\* the chain falls through to the next candidate, so a null result after a
\* failure is recorded only when all candidates have been queried.
C9_FailureFallsThrough ==
    (Done /\ \E i \in 1..Len(call.resps) : call.resps[i] \in Failures) =>
        Len(call.calls) = Len(Candidates(TownNamed(call.raw)))

\* C9 (amended): a failed search call ends the whole retry chain of its town:
\* no further candidate is queried, whatever candidates remain, and a
\* null-coordinate result is returned and recorded for the town.
C9_FailureEndsChain ==
    \A i \in 1..Len(call.resps) :
        call.resps[i] \in Failures =>
            /\ i = Len(call.calls)
            /\ Done
            /\ call.ret = NullCoord
            /\ GEO_CACHE[TownNamed(call.raw)] = NullCoord

C9_Witness ==
    /\ Done
    /\ call.town = TownOf(2)
    /\ call.resps = <<FetchReject>>
    /\ call.calls = <<TownOf(2)>>
    /\ GEO_CACHE[TownOf(2)] = NullCoord

----------------------------------------------------------------------------
(* geocodeTownsAndAttach *)

chunkSize == 5

Min(a, b) == IF a <= b THEN a ELSE b

\* .filter((t) => t && t !== "No town")
KeepTown(t) == t # <<>> /\ t # NoTown

\* a list that keeps every occurrence
SetOrderAll(list) == list

\* [...new Set(list)]: the first occurrence of each element, in order
RECURSIVE SetOrder(_)
SetOrder(list) ==
    IF list = <<>> THEN <<>>
    ELSE LET front == SetOrder(SubSeq(list, 1, Len(list) - 1))
             x == list[Len(list)]
         IN  IF \E j \in 1..Len(front) : front[j] = x THEN front
             ELSE Append(front, x)

\* the uniqueTowns of a list of properties
UniqueTowns(properties) ==
    SetOrder(SelectSeq([j \in 1..Len(properties) |->
                           Trim(OrEmpty(properties[j].town))],
                       KeepTown))

\* a slice that takes all the towns that are left
SliceEndAll(i, len) == len

\* the end of uniqueTowns.slice(i, i + chunkSize)
SliceEnd(i, len) == Min(i + chunkSize, len)

\* the indices (1-based) of the towns of the chunk that starts at i
ChunkIndices(i, len) == (i + 1)..SliceEnd(i, len)

\* chunk.map((t) => geocodeTown(t, log)): every invocation of the chunk runs
\* to its first await
StartChunk(b, lks, cache) ==
    [j \in DOMAIN lks |->
        IF j \in ChunkIndices(b.i, Len(b.uniqueTowns))
        THEN GeocodeStart(b.uniqueTowns[j], cache)
        ELSE lks[j]]

\* a merge that looks the town up as it stands in the listing
CoordsForRawKey(townCoordMap, p) ==
    LET key == OrEmpty(p.town)
    IN  IF key \in DOMAIN townCoordMap THEN townCoordMap[key] ELSE NullCoord

\* townCoordMap[(p.town || "").trim()] || {}, then coords.lat ?? null
CoordsFor(townCoordMap, p) ==
    LET key == Trim(OrEmpty(p.town))
    IN  IF key \in DOMAIN townCoordMap THEN townCoordMap[key] ELSE NullCoord

\* (properties || []).map((p) => ({...p, latitude, longitude}))
Attach(properties, townCoordMap) ==
    [j \in 1..Len(properties) |->
        [f \in DOMAIN properties[j] \cup {"latitude", "longitude"} |->
            IF f = "latitude" THEN CoordsFor(townCoordMap, properties[j]).lat
            ELSE IF f = "longitude" THEN CoordsFor(townCoordMap, properties[j]).lon
            ELSE properties[j][f]]]

\* a merge that writes the coordinates into the listings it was given
LoopInPlace(b, lks, cache) ==
    IF b.i < Len(b.uniqueTowns)
    THEN [batch |-> [b EXCEPT !.pc = "chunk"],
          lookups |-> StartChunk(b, lks, cache)]
    ELSE [batch |-> [b EXCEPT !.pc = "done",
                              !.properties = Attach(b.properties, b.townCoordMap),
                              !.out = Attach(b.properties, b.townCoordMap),
                              !.outcome = "returned"],
          lookups |-> lks]

\* the batch from the cut of a chunk on: the next chunk is started, or, past
\* the last town, the coordinates are attached and the batch returns
Loop(b, lks, cache) ==
    IF b.i < Len(b.uniqueTowns)
    THEN [batch |-> [b EXCEPT !.pc = "chunk"],
          lookups |-> StartChunk(b, lks, cache)]
    ELSE [batch |-> [b EXCEPT !.pc = "done",
                              !.out = Attach(b.properties, b.townCoordMap),
                              !.outcome = "returned"],
          lookups |-> lks]

\* chunk.forEach((town, idx) => { townCoordMap[town] = results[idx]; })
Record(b, lks) ==
    [t \in DOMAIN b.townCoordMap
            \cup {b.uniqueTowns[j] : j \in ChunkIndices(b.i, Len(b.uniqueTowns))} |->
        IF \E j \in ChunkIndices(b.i, Len(b.uniqueTowns)) : b.uniqueTowns[j] = t
        THEN lks[CHOOSE j \in ChunkIndices(b.i, Len(b.uniqueTowns)) :
                     b.uniqueTowns[j] = t].ret
        ELSE b.townCoordMap[t]]

\* the synchronous start of the batch: the unique towns are collected and
\* the first chunk is started
StartBatch(properties, cache) ==
    LET b == [IdleBatch EXCEPT !.properties = properties,
                               !.uniqueTowns = UniqueTowns(properties)]
    IN  Loop(b, [j \in 1..Len(b.uniqueTowns) |-> IdleLookup], cache)

\* the batch once Promise.all of its chunk has settled: a rejection leaves
\* the batch, else the results are recorded and the loop goes on
AfterChunk(b, lks, cache) ==
    IF \E j \in ChunkIndices(b.i, Len(b.uniqueTowns)) : lks[j].outcome = "threw"
    THEN [batch |-> [b EXCEPT !.pc = "done", !.outcome = "threw"],
          lookups |-> lks]
    ELSE Loop([b EXCEPT !.townCoordMap = Record(b, lks), !.i = @ + chunkSize],
              lks, cache)

----------------------------------------------------------------------------
(* A caller that invokes geocodeTownsAndAttach, one batch after the other, *)
(* in one warm process                                                     *)

TownNames == <<"F", "G", "H", "I", "J", "K", "L", "M", "N", "O", "P", "Q">>

\* the listings a batch is cut from: a town per listing, but for one town
\* that comes twice (once padded), one listing without a title and one
\* without a town
ListingTown(j) ==
    IF j = 2 THEN <<" ", TownNames[1], " ">>
    ELSE IF j = 3 THEN NoTown
    ELSE IF j = 6 THEN Nullish
    ELSE <<TownNames[j]>>

\* listing 4 comes with the coordinates of an earlier pass
Listing(j) ==
    IF j = 4
    THEN [id |-> j, town |-> ListingTown(j), price |-> <<"4">>,
          latitude |-> Num(1), longitude |-> Num(1)]
    ELSE [id |-> j, town |-> ListingTown(j), price |-> <<"1">>]

\* the place-search answers of the batches: no match, or one good match
BatchResponses == {EmptyArray, Kranj}

\* geocodeTownsAndAttach(properties, log), up to its first await; the caller
\* passes a new list, or once more the list of the batch that just returned
BatchCall ==
    /\ batch.pc \in {"idle", "done"}
    /\ \E n \in 0..MaxProps, again \in BOOLEAN :
          /\ again => /\ batch.outcome = "returned"
                      /\ ~batch.again
                      /\ n = Len(batch.properties)
          /\ LET properties == [j \in 1..n |-> Listing(j)]
                 b == [IdleBatch EXCEPT !.properties = properties,
                                        !.uniqueTowns = UniqueTowns(properties),
                                        !.again = again,
                                        !.before = IF again THEN batch.out
                                                   ELSE <<>>]
                 next == Loop(b, [j \in 1..Len(b.uniqueTowns) |-> IdleLookup],
                              GEO_CACHE)
             IN  /\ batch' = next.batch
                 /\ lookups' = next.lookups
    /\ UNCHANGED <<GEO_CACHE, geoVars, scrapeVars, endpointVars, mapVars>>

\* the query one invocation of the chunk awaits settles
LookupSettles ==
    /\ batch.pc = "chunk"
    /\ \E j \in DOMAIN lookups :
          /\ Waiting(lookups[j])
          /\ \E resp \in BatchResponses :
                LET next == GeocodeResume(lookups[j], resp, GEO_CACHE)
                IN  /\ lookups' = [lookups EXCEPT ![j] = next.lk]
                    /\ GEO_CACHE' = next.cache
    /\ UNCHANGED <<batch, geoVars, scrapeVars, endpointVars, mapVars>>

\* Promise.all of the chunk settles: the results are recorded and the loop
\* goes on
ChunkSettles ==
    /\ batch.pc = "chunk"
    /\ \A j \in ChunkIndices(batch.i, Len(batch.uniqueTowns)) :
          lookups[j].pc = "done"
    /\ IF \E j \in ChunkIndices(batch.i, Len(batch.uniqueTowns)) :
             lookups[j].outcome = "threw"
       THEN /\ batch' = [batch EXCEPT !.pc = "done", !.outcome = "threw"]
            /\ UNCHANGED lookups
       ELSE LET b == [batch EXCEPT !.townCoordMap = Record(batch, lookups),
                                   !.i = @ + chunkSize]
                next == Loop(b, lookups, GEO_CACHE)
            IN  /\ batch' = next.batch
                /\ lookups' = next.lookups
    /\ UNCHANGED <<GEO_CACHE, geoVars, scrapeVars, endpointVars, mapVars>>

NextBatch == BatchCall \/ LookupSettles \/ ChunkSettles

SpecBatch == Init /\ [][NextBatch]_vars

InProgress == {j \in DOMAIN lookups : Waiting(lookups[j])}

\* C10: in one batch the lookups run in chunks of at most 5 towns: never are
\* more than 5 lookups of the batch in progress, and no lookup of a chunk has
\* started before every lookup of the chunks before it has finished.
C10_ChunksOfFive ==
    /\ Cardinality(InProgress) <= 5
    /\ \A j, k \in DOMAIN lookups :
          (lookups[j].pc # "idle" /\ (k - 1) \div 5 < (j - 1) \div 5) =>
              lookups[k].pc = "done"
    /\ batch.pc = "done" => \A j \in DOMAIN lookups : lookups[j].pc = "done"

C10_Witness ==
    /\ batch.pc = "chunk"
    /\ Len(batch.uniqueTowns) = 6
    /\ batch.i = 5
    /\ Waiting(lookups[6])
    /\ \A j \in 1..5 : lookups[j].pc = "done" /\ lookups[j].calls # <<>>

----------------------------------------------------------------------------
(* The getProperties handlers.  Three variants are in the repository: the  *)
(* "first" scrapes a fixed URL, the "second" connects to a remote browser  *)
(* and returns the listings, the "combined" also geocodes them.            *)

Variants == {"first", "second", "combined"}

\* the sentinels of the extraction
NoTitle == <<"N", "o", " ", "t", "i", "t", "l", "e">>

NoPrice == <<"N", "o", " ", "p", "r", "i", "c", "e">>

NoLink == <<"N", "o", " ", "l", "i", "n", "k">>

NoImage == <<"N", "o", " ", "i", "m", "a", "g", "e">>

NoUrl == <<"N", "o", " ", "u", "r", "l", "-", "t", "i", "t", "l", "e", "-", "d">>

NoDescription == <<"N", "o", " ", "d", "e", "s", "c", "r", "i", "p", "t", "i", "o", "n">>

NoType == <<"N", "o", " ", "t", "y", "p", "e">>

NoSeller == <<"N", "o", " ", "s", "e", "l", "l", "e", "r", " ", "i", "n", "f", "o">>

Http == <<"h", "t", "t", "p">>

Site == <<"n", "e", "p", "r", "e", "m", "i", "c", "n", "i", "n", "e", ".", "n", "e", "t">>

\* the origin of document.baseURI
Origin == <<"h", "t", "t", "p", "s", ":", "/", "/", "n", "e", "p", "r", "e", "m", "i", "c", "n", "i", "n", "e", ".", "n", "e", "t">>

StartsWith(s, prefix) ==
    Len(s) >= Len(prefix) /\ SubSeq(s, 1, Len(prefix)) = prefix

\* the attribute selector [src*="..."]
Contains(s, sub) ==
    \E i \in 1..(Len(s) - Len(sub) + 1) : SubSeq(s, i, i + Len(sub) - 1) = sub

\* a string that is neither null nor empty
Truthy(v) == v # Nullish /\ v # <<>>

\* a || b
Or(a, b) == IF Truthy(a) THEN a ELSE b

\* a text that falls back to the sentinel only when the element is absent
TextOrAbsentOnly(el, sentinel) == IF el # Nullish THEN Trim(el) ELSE sentinel

\* el?.textContent.trim() || sentinel
TextOr(el, sentinel) ==
    IF el # Nullish /\ Trim(el) # <<>> THEN Trim(el) ELSE sentinel

\* el ? el.textContent.trim() : sentinel
TextIf(el, sentinel) == IF el # Nullish THEN Trim(el) ELSE sentinel

\* s.split(",")[0]
BeforeComma(s) ==
    IF LastIndexOf(s, ",") = -1 THEN s
    ELSE SubSeq(s, 1, (CHOOSE i \in 1..Len(s) :
                          s[i] = "," /\ \A k \in 1..(i - 1) : s[k] # ",") - 1)

\* s.split(/\s+/)[0]
BeforeSpace(s) ==
    IF \A i \in 1..Len(s) : s[i] # " " THEN s
    ELSE SubSeq(s, 1, (CHOOSE i \in 1..Len(s) :
                          s[i] = " " /\ \A k \in 1..(i - 1) : s[k] # " ") - 1)

\* new URL(src, document.baseURI).href, for the paths of the pages modelled:
\* a path from the root, or a name next to the root
ResolveUrl(src) ==
    IF StartsWith(src, <<"/">>) THEN Origin \o src ELSE Origin \o <<"/">> \o src

\* src.startsWith("http") ? src : new URL(src, document.baseURI).href
Absolute(src) == IF StartsWith(src, Http) THEN src ELSE ResolveUrl(src)

\* a card without an img element
NoImg ==
    [present |-> FALSE, dataSrc |-> Nullish, src |-> Nullish,
     dataSrcset |-> Nullish, srcset |-> Nullish]

\* the image of a card: data-src, else src, else the first candidate of
\* data-srcset or srcset, made absolute
ImageOf(img) ==
    IF ~img.present THEN NoImage
    ELSE LET src0 == Or(img.dataSrc, img.src)
             srcset == Or(img.dataSrcset, img.srcset)
             first == IF Truthy(srcset)
                      THEN BeforeSpace(Trim(BeforeComma(srcset)))
                      ELSE <<>>
             src == IF ~Truthy(src0) /\ Truthy(first) THEN first ELSE src0
         IN  IF Truthy(src) THEN Absolute(src) ELSE NoImage

\* box.querySelector('img[src*="nepremicnine.net"]'), then imgElement.src
ImageOfFirst(img) ==
    IF img.present /\ img.src # Nullish /\ Contains(img.src, Site)
    THEN Absolute(img.src)
    ELSE NoImage

\* a listing whose town is its title, whatever the title is
ExtractCardTownIsTitle(box, index) ==
    [id |-> index + 1,
     title |-> TextOr(box.h2, NoTitle),
     town |-> TextOr(box.h2, NoTitle),
     price |-> TextOr(box.h6, NoPrice),
     link |-> Or(box.link, NoLink),
     image |-> ImageOf(box.img),
     url |-> IF box.url # Nullish THEN box.url ELSE NoUrl]

\* a listing that numbers the cards from 0
ExtractCardFromZero(box, index) ==
    [id |-> index,
     title |-> TextOr(box.h2, NoTitle),
     town |-> IF TextOr(box.h2, NoTitle) = NoTitle THEN NoTown
              ELSE TextOr(box.h2, NoTitle),
     price |-> TextOr(box.h6, NoPrice),
     link |-> Or(box.link, NoLink),
     image |-> ImageOf(box.img),
     url |-> IF box.url # Nullish THEN box.url ELSE NoUrl]

\* the callback of forEach in the second and the combined variant; index
\* counts from 0
ExtractCard(box, index) ==
    [id |-> index + 1,
     title |-> TextOr(box.h2, NoTitle),
     town |-> IF TextOr(box.h2, NoTitle) = NoTitle THEN NoTown
              ELSE TextOr(box.h2, NoTitle),
     price |-> TextOr(box.h6, NoPrice),
     link |-> Or(box.link, NoLink),
     image |-> ImageOf(box.img),
     url |-> IF box.url # Nullish THEN box.url ELSE NoUrl]

\* the callback of forEach in the first variant
ExtractCardFirst(box, index) ==
    [id |-> index + 1,
     title |-> TextIf(box.h2, NoTitle),
     price |-> TextIf(box.h6, NoPrice),
     link |-> IF box.link # Nullish THEN box.link ELSE NoLink,
     description |-> TextIf(box.description, NoDescription),
     propertyType |-> TextIf(box.tipi, NoType),
     details |-> SelectSeq([k \in 1..Len(box.details) |-> Trim(box.details[k])],
                           Truthy),
     seller |-> TextIf(box.seller, NoSeller),
     image |-> ImageOfFirst(box.img),
     scrapedAt |-> <<"t">>]

\* page.evaluate: one listing per .property-box, in document order
Extract(variant, page) ==
    [j \in 1..Len(page) |->
        IF variant = "first" THEN ExtractCardFirst(page[j], j - 1)
        ELSE ExtractCard(page[j], j - 1)]

\* the cards of the pages scraped: one with every element, one with none,
\* one whose elements are blank (empty texts, an anchor without href, an img
\* without a source), one with a title and a srcset only
FullCard ==
    [h2 |-> <<" ", "A", " ">>, h6 |-> <<"9">>,
     link |-> <<"h", "t", "t", "p", ":", "/", "/", "x", "/", "a">>,
     url |-> <<"h", "t", "t", "p", ":", "/", "/", "x", "/", "u", "/", "a">>,
     img |-> [present |-> TRUE, dataSrc |-> <<"h", "t", "t", "p", ":", "/", "/", "i", "/", "a">>,
              src |-> <<"h", "t", "t", "p", "s", ":", "/", "/", "n", "e", "p", "r", "e", "m", "i", "c", "n", "i", "n", "e", ".", "n", "e", "t", "/", "p", ".", "g", "i", "f">>,
              dataSrcset |-> Nullish, srcset |-> Nullish],
     description |-> <<"d">>, tipi |-> <<"S">>,
     details |-> << <<"2">>, <<" ">> >>, seller |-> <<"s">>]

BareCard ==
    [h2 |-> Nullish, h6 |-> Nullish, link |-> Nullish, url |-> Nullish,
     img |-> NoImg, description |-> Nullish, tipi |-> Nullish,
     details |-> <<>>, seller |-> Nullish]

BlankCard ==
    [h2 |-> <<" ">>, h6 |-> <<>>, link |-> Nullish, url |-> <<>>,
     img |-> [present |-> TRUE, dataSrc |-> Nullish, src |-> <<>>,
              dataSrcset |-> <<>>, srcset |-> Nullish],
     description |-> <<>>, tipi |-> <<" ">>, details |-> << <<" ">> >>,
     seller |-> Nullish]

OtherCard ==
    [h2 |-> <<"B">>, h6 |-> <<"8">>,
     link |-> <<"h", "t", "t", "p", ":", "/", "/", "x", "/", "b">>,
     url |-> <<"h", "t", "t", "p", ":", "/", "/", "x", "/", "u", "/", "b">>,
     img |-> [present |-> TRUE, dataSrc |-> Nullish, src |-> Nullish,
              dataSrcset |-> Nullish,
              srcset |-> <<" ", "/", "c", ".", "j", "p", "g", " ", "1", "x", ",", " ", "/", "d", ".", "j", "p", "g", " ", "2", "x">>],
     description |-> Nullish, tipi |-> Nullish, details |-> <<>>,
     seller |-> Nullish]

Cards == {FullCard, BareCard, BlankCard, OtherCard}

RECURSIVE PagesOf(_)
PagesOf(n) ==
    IF n = 0 THEN {<<>>}
    ELSE PagesOf(n - 1)
            \cup {pg \in {Append(q, c) : q \in PagesOf(n - 1), c \in Cards} :
                    /\ Len(pg) = n
                    /\ \A j, k \in 1..n : pg[j] = pg[k] => j = k}

\* the documents a navigation can load: up to MaxCards cards, each card of
\* a document different from the others
Pages == PagesOf(MaxCards)


\* the OPTIONS preflight answer
Preflight ==
    [statusCode |-> 200, kind |-> "preflight", headers |-> "cors",
     body |-> "empty", error |-> "none", properties |-> "absent",
     listings |-> <<>>, count |-> 0]

\* the answer to a request without the url parameter
MissingUrl ==
    [statusCode |-> 200, kind |-> "failure", headers |-> "cors",
     body |-> "json", error |-> "missing-url", properties |-> "empty",
     listings |-> <<>>, count |-> 0]

\* the success envelope
Success(hd) ==
    [statusCode |-> 200, kind |-> "success", headers |-> "cors",
     body |-> "json", error |-> "none", properties |-> "listings",
     listings |-> hd.properties, count |-> Len(hd.properties)]

\* the outer catch: the failure envelope
Failure(hd, err) ==
    IF hd.variant = "first"
    THEN [statusCode |-> 500, kind |-> "failure", headers |-> "cors",
          body |-> "json", error |-> err, properties |-> "absent",
          listings |-> <<>>, count |-> 0]
    ELSE [statusCode |-> 200, kind |-> "failure", headers |-> "cors",
          body |-> "json", error |-> err, properties |-> "empty",
          listings |-> <<>>, count |-> 0]

Respond(hd, resp) == [hd EXCEPT !.pc = "responded", !.resp = resp]

\* an error of the scrape block: the first variant goes straight to its
\* catch, the later ones first try to close
ScrapeError(hd, err) ==
    IF hd.variant = "first" THEN Respond(hd, Failure(hd, err))
    ELSE [hd EXCEPT !.pc = "closeAfterError", !.error = err]

\* a close that closes the pages and leaves the browser to itself
ClosedPagesOnly(hd) == [hd EXCEPT !.pages = 0]

\* what a close that succeeds leaves: the second variant closes the pages of
\* its browser, the others the browser
Closed(hd) ==
    IF hd.variant = "second" THEN [hd EXCEPT !.pages = 0]
    ELSE [hd EXCEPT !.pages = 0, !.browser = "closed"]

\* what a close that fails leaves: the browser as it is, or closed all the
\* same; the second variant never closes the browser
CloseFails(hd, left) ==
    [hd EXCEPT !.closeFailed = TRUE,
               !.browser = IF hd.variant = "second" THEN "open" ELSE left]

\* the start of a request that is no preflight: the later variants answer a
\* request without url at once, the first variant scrapes a fixed address
Start(hd) ==
    IF hd.variant # "first" /\ ~hd.url THEN Respond(hd, MissingUrl)
    ELSE [hd EXCEPT !.pc = "launch"]

\* a handler that treats the preflight like any other request
EnterNoPreflight(hd) == Start(hd)

\* the handler from its first line: the preflight is answered before the
\* try block
Enter(hd) ==
    IF hd.httpMethod = "OPTIONS" THEN Respond(hd, Preflight) ELSE Start(hd)

\* the handler is invoked
HandlerCall ==
    /\ h.pc \in {"idle", "responded"}
    /\ \E variant \in Variants, httpMethod \in {"OPTIONS", "GET"},
          url \in BOOLEAN :
          LET hd == [IdleHandler EXCEPT !.variant = variant,
                                        !.httpMethod = httpMethod,
                                        !.url = url]
          IN  h' = Enter(hd)
    /\ g.pc \in {"idle", "responded"}
    /\ g' = IdleGeo
    /\ batch' = IdleBatch
    /\ lookups' = <<>>
    /\ UNCHANGED <<GEO_CACHE, GEO_CACHE_getProperties, geoVars, mapVars>>

\* puppeteer.launch / puppeteer.connect settles
Launch ==
    /\ h.pc = "launch"
    /\ \E ok \in BOOLEAN :
          h' = IF ok THEN [h EXCEPT !.pc = "newPage", !.browser = "open"]
               ELSE Respond(h, Failure(h, "launch"))
    /\ UNCHANGED <<GEO_CACHE, GEO_CACHE_getProperties, geoVars, batchVars, endpointVars, mapVars>>

\* browser.newPage settles
NewPage ==
    /\ h.pc = "newPage"
    /\ \E ok \in BOOLEAN :
          h' = IF ok THEN [h EXCEPT !.pc = "setup", !.pages = 1]
               ELSE ScrapeError(h, "newPage")
    /\ UNCHANGED <<GEO_CACHE, GEO_CACHE_getProperties, geoVars, batchVars, endpointVars, mapVars>>

\* the user agent, the viewport, the time zone and the request interception
\* are set
Setup ==
    /\ h.pc = "setup"
    /\ \E ok \in BOOLEAN :
          h' = IF ok THEN [h EXCEPT !.pc = "goto"]
               ELSE ScrapeError(h, "setup")
    /\ UNCHANGED <<GEO_CACHE, GEO_CACHE_getProperties, geoVars, batchVars, endpointVars, mapVars>>

\* page.goto settles: a document is loaded, with the cards it will render
Goto ==
    /\ h.pc = "goto"
    /\ \/ \E page \in Pages :
             h' = [h EXCEPT !.pc = "wait", !.loaded = TRUE, !.page = page]
       \/ h' = ScrapeError(h, "navigation")
    /\ UNCHANGED <<GEO_CACHE, GEO_CACHE_getProperties, geoVars, batchVars, endpointVars, mapVars>>

\* the wait for the content: the first variant only sleeps three seconds,
\* the later ones go on when waitForSelector(".property-box") resolved
Wait(hd, ok) ==
    IF hd.variant = "first" \/ ok THEN [hd EXCEPT !.pc = "evaluate"]
    ELSE ScrapeError(hd, "content-timeout")

\* the sleep, or page.waitForSelector(".property-box"), settles; the
\* selector is found only on a page that renders a card
WaitForContent ==
    /\ h.pc = "wait"
    /\ \E ok \in BOOLEAN :
          /\ ok => h.page # <<>>
          /\ h' = Wait(h, ok)
    /\ UNCHANGED <<GEO_CACHE, GEO_CACHE_getProperties, geoVars, batchVars, endpointVars, mapVars>>

\* page.evaluate settles
Evaluate ==
    /\ h.pc = "evaluate"
    /\ \E ok \in BOOLEAN :
          h' = IF ok
               THEN [h EXCEPT !.pc = "close", !.evaluated = TRUE,
                              !.properties = Extract(h.variant, h.page)]
               ELSE ScrapeError([h EXCEPT !.evaluated = TRUE], "extraction")
    /\ UNCHANGED <<GEO_CACHE, GEO_CACHE_getProperties, geoVars, batchVars, endpointVars, mapVars>>

\* a cleanup whose failure goes to the outer catch in place of the scrape
\* error
AfterCleanupOfErrorUnguarded(hd) ==
    Respond(hd, Failure(hd, IF hd.closeFailed THEN "close" ELSE hd.error))

\* after the cleanup in the catch of the scrape block, failed or not:
\* throw scrapeErr, which the outer catch answers
AfterCleanupOfError(hd) == Respond(hd, Failure(hd, hd.error))

\* the close in the catch of the scrape block settles; its own failure is
\* logged
CloseAfterError ==
    /\ h.pc = "closeAfterError"
    /\ \/ h' = AfterCleanupOfError(Closed(h))
       \/ \E left \in {"open", "closed"} :
             h' = AfterCleanupOfError(CloseFails(h, left))
    /\ UNCHANGED <<GEO_CACHE, GEO_CACHE_getProperties, geoVars, batchVars, endpointVars, mapVars>>

\* what follows the close of the normal path in the first and the second
\* variant; in the first variant a close that failed has thrown to the
\* catch of the handler, in the second it was logged
AfterClose(hd) ==
    IF hd.variant = "first" /\ hd.closeFailed
    THEN Respond(hd, Failure(hd, "close"))
    ELSE Respond(hd, Success(hd))

\* the success envelope of the combined variant: propertiesWithCoords
Geocoded(hd, out) == Respond(hd, Success([hd EXCEPT !.properties = out]))

\* what follows the close of the normal path in the combined variant: the
\* unique towns are collected and the first chunk of lookups is started;
\* without a town to look up the handler answers at once
GeocodeAfterClose(hd, cache) ==
    LET next == StartBatch(hd.properties, cache)
    IN  [h |-> IF next.batch.pc = "done" THEN Geocoded(hd, next.batch.out)
               ELSE [hd EXCEPT !.pc = "geocoding"],
         batch |-> next.batch,
         lookups |-> next.lookups]

\* the close of the normal path settles
Close ==
    /\ h.pc = "close"
    /\ \E hd \in {Closed(h)} \cup {CloseFails(h, left) : left \in {"open", "closed"}} :
          IF h.variant = "combined"
          THEN LET next == GeocodeAfterClose(hd, GEO_CACHE_getProperties)
               IN  /\ h' = next.h
                   /\ batch' = next.batch
                   /\ lookups' = next.lookups
          ELSE /\ h' = AfterClose(hd)
               /\ UNCHANGED batchVars
    /\ UNCHANGED <<GEO_CACHE, GEO_CACHE_getProperties, geoVars, endpointVars, mapVars>>

\* the query one lookup of the running chunk awaits settles
GeocodeLookupSettles ==
    /\ h.pc = "geocoding"
    /\ \E j \in DOMAIN lookups :
          /\ Waiting(lookups[j])
          /\ \E resp \in BatchResponses :
                LET next == GeocodeResume(lookups[j], resp,
                                          GEO_CACHE_getProperties)
                IN  /\ lookups' = [lookups EXCEPT ![j] = next.lk]
                    /\ GEO_CACHE_getProperties' = next.cache
    /\ UNCHANGED <<GEO_CACHE, h, batch, geoVars, endpointVars, mapVars>>

\* Promise.all of the chunk settles; after the last chunk the coordinates
\* are attached and the handler answers
GeocodeChunkSettles ==
    /\ h.pc = "geocoding"
    /\ \A j \in ChunkIndices(batch.i, Len(batch.uniqueTowns)) :
          lookups[j].pc = "done"
    /\ LET next == AfterChunk(batch, lookups, GEO_CACHE_getProperties)
       IN  /\ batch' = next.batch
           /\ lookups' = next.lookups
           /\ h' = IF next.batch.pc # "done" THEN h
                   ELSE IF next.batch.outcome = "threw"
                   THEN Respond(h, Failure(h, "geocoding"))
                   ELSE Geocoded(h, next.batch.out)
    /\ UNCHANGED <<GEO_CACHE, GEO_CACHE_getProperties, geoVars, endpointVars, mapVars>>

NextScrape ==
    \/ HandlerCall
    \/ Launch
    \/ NewPage
    \/ Setup
    \/ Goto
    \/ WaitForContent
    \/ Evaluate
    \/ CloseAfterError
    \/ Close
    \/ GeocodeLookupSettles
    \/ GeocodeChunkSettles

SpecScrape == Init /\ [][NextScrape]_vars

\* C1: in every variant of the getProperties handler, once a browser handle
\* has been obtained it is closed before the handler returns, on every exit
\* path: no response is returned while the browser of the invocation is
\* still open.
C1_BrowserClosedBeforeResponse ==
    (h.pc = "responded" /\ h.browser # "none") => h.browser = "closed"

----------------------------------------------------------------------------
(* Requests that are served at the same time by one warm process: each     *)
(* runs geocodeTown, and their awaits interleave                           *)

RaceTowns == {TownOf(0), <<" ">> \o TownOf(0) \o <<" ">>, TownOf(1)}

RaceResponses == {FetchReject, EmptyArray, Kranj, Koper}

\* a request invokes geocodeTown(townRaw, log)
RaceCall ==
    /\ \E r \in DOMAIN reqs, townRaw \in RaceTowns :
          /\ ~Waiting(reqs[r])
          /\ reqs' = [reqs EXCEPT ![r] = GeocodeStart(townRaw, GEO_CACHE)]
    /\ UNCHANGED <<GEO_CACHE, call, cacheAtCall, nullEnded, batchVars, scrapeVars, endpointVars, mapVars>>

\* the query a request awaits settles
RaceSettles ==
    /\ \E r \in DOMAIN reqs, resp \in RaceResponses :
          /\ Waiting(reqs[r])
          /\ LET next == GeocodeResume(reqs[r], resp, GEO_CACHE)
             IN  /\ reqs' = [reqs EXCEPT ![r] = next.lk]
                 /\ GEO_CACHE' = next.cache
    /\ UNCHANGED <<call, cacheAtCall, nullEnded, batchVars, scrapeVars, endpointVars, mapVars>>

NextRace == RaceCall \/ RaceSettles

SpecRace == Init /\ [][NextRace]_vars

\* a resolution that went to the place-search API and has returned
Resolved(lk) == lk.pc = "done" /\ lk.calls # <<>>

\* C11: when two requests resolve the same uncached town at the same time,
\* both resolutions return the same value, and the cache entry of the town,
\* once written, does not change to a different value: it stays the value
\* each finished resolution wrote and returned.
C11_RaceIsOnlyRedundantWork ==
    \A r, q \in DOMAIN reqs :
        /\ Resolved(reqs[r]) => GEO_CACHE[reqs[r].town] = reqs[r].ret
        /\ (Resolved(reqs[r]) /\ Resolved(reqs[q])
                /\ reqs[r].town = reqs[q].town) =>
              reqs[r].ret = reqs[q].ret

----------------------------------------------------------------------------
\* C12: the town cache only grows: a step of the process never removes a
\* key from GEO_CACHE, so every key that was ever cached is still cached
\* after any sequence of lookups.
C12_CacheOnlyGrows == [][DOMAIN GEO_CACHE \subseteq DOMAIN GEO_CACHE']_vars

\* a lookup has just written its result next to two older entries
C12_Witness ==
    /\ Done
    /\ call.calls # <<>>
    /\ call.town \in DOMAIN GEO_CACHE
    /\ Cardinality(DOMAIN GEO_CACHE) >= 3
    /\ \E t \in DOMAIN GEO_CACHE : GEO_CACHE[t] = NullCoord
    /\ \E t \in DOMAIN GEO_CACHE : GEO_CACHE[t] # NullCoord

----------------------------------------------------------------------------
\* the batch has returned its merged listings
Merged == batch.pc = "done" /\ batch.outcome = "returned"

\* C13: calling geocodeTownsAndAttach twice with the same list yields the
\* same latitude and longitude for every listing both times, whatever the
\* place-search API answers during the second call.
C13_SecondBatchSameCoordinates ==
    (Merged /\ batch.again) =>
        /\ Len(batch.out) = Len(batch.before)
        /\ \A j \in 1..Len(batch.out) :
              /\ batch.out[j].latitude = batch.before[j].latitude
              /\ batch.out[j].longitude = batch.before[j].longitude

\* the second pass over nine listings, some found and some not
C13_Witness ==
    /\ Merged
    /\ batch.again
    /\ Len(batch.out) = 9
    /\ batch.out[5].latitude = Num(46)
    /\ batch.out[7].latitude = NullVal
    /\ batch.out[6].latitude = NullVal

\* the town a listing names once trimmed, <<>> when it names none
ListingKey(j) ==
    IF j \in {3, 6} THEN <<>>
    ELSE IF j = 2 THEN <<TownNames[1]>>
    ELSE <<TownNames[j]>>

\* what the lookup of the town of listing j returned in this batch
ResolvedFor(j) ==
    IF ListingKey(j) = <<>> THEN NullCoord
    ELSE lookups[CHOOSE u \in DOMAIN lookups :
                     lookups[u].town = ListingKey(j)].ret

\* C14: the merged list is as long as the input; listing i of the output
\* carries every field of listing i of the input, and as latitude and
\* longitude what the lookup of its trimmed town returned (null for a
\* listing without a town); a padded town gets the coordinates of the town.
C14_MergeCorrect ==
    Merged =>
        /\ Len(batch.out) = Len(batch.properties)
        /\ \A j \in 1..Len(batch.out) :
              /\ \A f \in DOMAIN batch.properties[j] \ {"latitude", "longitude"} :
                    batch.out[j][f] = batch.properties[j][f]
              /\ batch.out[j].latitude = ResolvedFor(j).lat
              /\ batch.out[j].longitude = ResolvedFor(j).lon
        /\ Len(batch.out) >= 2 =>
              /\ batch.out[2].latitude = batch.out[1].latitude
              /\ batch.out[2].longitude = batch.out[1].longitude

\* a first pass in which the town that comes padded was found, and the
\* listing with stale coordinates got the null of its town
C14_Witness ==
    /\ Merged
    /\ ~batch.again
    /\ Len(batch.out) >= 4
    /\ lookups[1].calls # <<>>
    /\ batch.out[2].latitude = Num(46)
    /\ batch.out[2].town = <<" ", "F", " ">>
    /\ batch.out[4].latitude = NullVal
    /\ batch.out[4].price = <<"4">>

\* the listings as the caller built them
InputIntact ==
    batch.properties = [j \in 1..Len(batch.properties) |-> Listing(j)]

\* C15: geocodeTownsAndAttach changes neither the listings it is given nor
\* the cached coordinates it reads: the input list stays as the caller built
\* it through the whole batch, and the step that merges leaves the cache as
\* it was.
C15_MergeLeavesInputsAlone ==
    [][/\ InputIntact'
       /\ (batch'.pc = "done" /\ batch' # batch) => GEO_CACHE' = GEO_CACHE]_vars

\* a merge put coordinates on listings that still carry none in the input
C15_Witness ==
    /\ Merged
    /\ Len(batch.properties) = 5
    /\ batch.out[5].latitude = Num(46)
    /\ "latitude" \notin DOMAIN batch.properties[5]
    /\ batch.properties[4].latitude = Num(1)
    /\ batch.out[4].latitude = Num(46)

----------------------------------------------------------------------------
\* the handler has answered the request
Responded == h.pc = "responded"

\* C16: in the variants that guard their cleanup (the second and the
\* combined one) a close that fails never masks the outcome: after a scrape
\* error the failure envelope carries the scrape error, and after a scrape
\* that succeeded the response is the success envelope with the listings.
C16_CleanupFailureKeepsOutcome ==
    (Responded /\ h.variant \in {"second", "combined"} /\ h.closeFailed) =>
        IF h.error # "none"
        THEN h.resp.kind = "failure" /\ h.resp.error = h.error
        ELSE /\ h.resp.kind = "success"
             /\ h.evaluated
             /\ \A j \in 1..Len(h.properties) :
                   \A f \in DOMAIN h.properties[j] :
                       h.resp.listings[j][f] = h.properties[j][f]
             /\ Len(h.resp.listings) = Len(h.page)

\* the wait timed out and then the close failed too
C16_Witness ==
    /\ Responded
    /\ h.variant = "combined"
    /\ h.closeFailed
    /\ h.error = "content-timeout"
    /\ h.resp.kind = "failure"
    /\ h.resp.error = "content-timeout"

\* C17: every answer to a request that is no preflight is an envelope with
\* a boolean success flag, and every failure envelope carries properties,
\* as the empty list.
C17_FailureEnvelopeHasEmptyProperties ==
    (Responded /\ h.httpMethod # "OPTIONS") =>
        /\ h.resp.kind \in {"success", "failure"}
        /\ h.resp.kind = "failure" =>
              h.resp.properties = "empty" /\ h.resp.listings = <<>>

\* C18: a request without the url parameter is answered with the failure
\* envelope (success false, properties empty) at once: no browser is
\* obtained and nothing is scraped.
C18_MissingUrlIsRefused ==
    (h.httpMethod = "GET" /\ ~h.url) =>
        /\ Responded
        /\ h.resp.kind = "failure"
        /\ h.resp.properties = "empty"
        /\ h.browser = "none"
        /\ ~h.loaded
        /\ ~h.evaluated

\* C19: when the document has loaded but never renders a listing card, the
\* handler answers with the failure envelope (success false, properties
\* empty), page.evaluate is never called, and the browser is closed.
C19_NoContentMarkerIsAFailure ==
    (Responded /\ h.loaded /\ h.page = <<>>) =>
        /\ h.resp.kind = "failure"
        /\ h.resp.properties = "empty"
        /\ ~h.evaluated
        /\ h.browser = "closed"

\* the title a card shows, <<>> for a card that shows none
CardTitle(card) ==
    IF card = FullCard THEN <<"A">>
    ELSE IF card = OtherCard THEN <<"B">>
    ELSE <<>>

\* page.evaluate has returned its listings
Extracted ==
    \/ h.pc \in {"close", "geocoding"}
    \/ Responded /\ h.evaluated /\ h.resp.kind = "success"

\* C20: for a page with N listing cards the extraction returns N listings,
\* listing j made from card j and with id j, also when a card misses fields.
C20_OneListingPerCardInOrder ==
    Extracted =>
        /\ Len(h.properties) = Len(h.page)
        /\ \A j \in 1..Len(h.properties) :
              /\ h.properties[j].id = j
              /\ CardTitle(h.page[j]) # <<>> =>
                    h.properties[j].title = CardTitle(h.page[j])

\* a card without any element comes before a full one
C20_Witness ==
    /\ Responded
    /\ h.variant = "second"
    /\ h.resp.kind = "success"
    /\ h.page = <<BareCard, FullCard>>
    /\ h.resp.listings[1].title = NoTitle
    /\ h.resp.listings[1].id = 1
    /\ h.resp.listings[2].id = 2
    /\ h.resp.listings[2].title = <<"A">>

----------------------------------------------------------------------------
\* an element that is absent, or whose text is empty or blank
NoText(el) == el = Nullish \/ \A i \in 1..Len(el) : el[i] = " "

\* an img element that is absent or carries no source at all
NoSource(img) ==
    \/ ~img.present
    \/ \A a \in {img.dataSrc, img.src, img.dataSrcset, img.srcset} :
          a = Nullish \/ a = <<>>

\* the fields of a listing of the second and the combined variant
ListingFields == {"id", "title", "town", "price", "link", "image", "url"}

\* C21: in the second and the combined variant every extracted listing has
\* each of its fields, none of them null; a field whose source element is
\* absent, and a text field whose text is empty, holds its sentinel: "No
\* title" with "No town", "No price", "No link", "No image", "No
\* url-title-d".
C21_MissingFieldsAreSentinels ==
    (Extracted /\ h.variant # "first") =>
        \A j \in 1..Len(h.properties) :
            LET p == h.properties[j]
                box == h.page[j]
            IN  /\ DOMAIN p = ListingFields
                /\ \A f \in ListingFields \ {"id"} : p[f] # Nullish
                /\ p.title # <<>> /\ p.town # <<>> /\ p.price # <<>>
                /\ p.link # <<>> /\ p.image # <<>>
                /\ NoText(box.h2) => p.title = NoTitle /\ p.town = NoTown
                /\ NoText(box.h6) => p.price = NoPrice
                /\ box.link = Nullish => p.link = NoLink
                /\ box.url = Nullish => p.url = NoUrl
                /\ NoSource(box.img) => p.image = NoImage

\* a page with a card of blank elements and a card without any element
C21_Witness ==
    /\ Responded
    /\ h.variant = "combined"
    /\ h.resp.kind = "success"
    /\ h.page = <<BlankCard, BareCard>>
    /\ \A j \in 1..2 : h.resp.listings[j].title = NoTitle
    /\ \A j \in 1..2 : h.resp.listings[j].price = NoPrice
    /\ h.resp.listings[1].image = NoImage
    /\ h.resp.listings[2].url = NoUrl

----------------------------------------------------------------------------
\* C22: every listing of a success response has the eight documented
\* fields: id, title, town, price, link, image, the property type and the
\* detail URL.
C22_ListingsHaveEightFields ==
    (Responded /\ h.resp.kind = "success") =>
        \A j \in 1..Len(h.resp.listings) :
            /\ {"id", "title", "town", "price", "link", "image", "url"}
                  \subseteq DOMAIN h.resp.listings[j]
            /\ \/ "type" \in DOMAIN h.resp.listings[j]
               \/ "propertyType" \in DOMAIN h.resp.listings[j]

----------------------------------------------------------------------------
(* The geocoding handler (getPropsLocation): POST {properties: [...]}      *)

GeoPreflight ==
    [statusCode |-> 200, kind |-> "preflight", headers |-> "cors",
     body |-> "empty", error |-> "none", hasProperties |-> FALSE,
     properties |-> <<>>]

\* the envelope {success: false, error}
GeoFailure(statusCode, error) ==
    [statusCode |-> statusCode, kind |-> "failure", headers |-> "cors",
     body |-> "json", error |-> error, hasProperties |-> FALSE,
     properties |-> <<>>]

\* the envelope {success: true, properties: out}
GeoSuccess(out) ==
    [statusCode |-> 200, kind |-> "success", headers |-> "cors",
     body |-> "json", error |-> "none", hasProperties |-> TRUE,
     properties |-> out]

GeoRespond(gd, resp) == [gd EXCEPT !.pc = "responded", !.resp = resp]

\* the bodies of the events: no body, text that is no JSON, the JSON null,
\* an object without properties, properties that is a string or an object,
\* an array that holds null, and arrays of up to MaxBody listings
Bodies ==
    {[kind |-> k, n |-> 0] :
        k \in {"absent", "not-json", "null", "object", "properties-string",
               "properties-object", "array-of-null"}}
        \cup {[kind |-> "array", n |-> n] : n \in 0..MaxBody}

\* the listings of a body of n listings: they name one town, plain or
\* padded, or none
BodyListings(n) ==
    [j \in 1..n |-> [Listing(1 + ((j - 1) % 3)) EXCEPT !.id = j]]

\* event.body ? JSON.parse(event.body) : {}, then `body || {}` and the
\* properties of it
PropertiesOf(body) ==
    IF body.kind = "not-json" THEN [threw |-> TRUE, isArray |-> FALSE]
    ELSE [threw |-> FALSE, isArray |-> body.kind \in {"array", "array-of-null"}]

\* a handler that takes whatever parses for a list
AfterParseUnchecked(gd, cache) ==
    IF PropertiesOf(gd.body).threw \/ gd.body.kind # "array"
    THEN [g |-> GeoRespond(gd, GeoFailure(200, "threw")),
          batch |-> IdleBatch, lookups |-> <<>>, started |-> FALSE]
    ELSE LET next == StartBatch(BodyListings(gd.body.n), cache)
         IN  [g |-> IF next.batch.pc = "done"
                    THEN GeoRespond(gd, GeoSuccess(next.batch.out))
                    ELSE [gd EXCEPT !.pc = "geocoding"],
              batch |-> next.batch, lookups |-> next.lookups,
              started |-> TRUE]

\* the try block of a POST: the body is parsed, a value that is no array is
\* refused, (p.town || "") of a null element throws, and else the batch
\* starts; what throws goes to the catch
AfterParse(gd, cache) ==
    IF PropertiesOf(gd.body).threw
    THEN [g |-> GeoRespond(gd, GeoFailure(200, "threw")),
          batch |-> IdleBatch, lookups |-> <<>>, started |-> FALSE]
    ELSE IF ~PropertiesOf(gd.body).isArray
    THEN [g |-> GeoRespond(gd, GeoFailure(400, "Provide 'properties' array in request")),
          batch |-> IdleBatch, lookups |-> <<>>, started |-> FALSE]
    ELSE IF gd.body.kind = "array-of-null"
    THEN [g |-> GeoRespond(gd, GeoFailure(200, "threw")),
          batch |-> IdleBatch, lookups |-> <<>>, started |-> FALSE]
    ELSE LET next == StartBatch(BodyListings(gd.body.n), cache)
         IN  [g |-> IF next.batch.pc = "done"
                    THEN GeoRespond(gd, GeoSuccess(next.batch.out))
                    ELSE [gd EXCEPT !.pc = "geocoding"],
              batch |-> next.batch, lookups |-> next.lookups,
              started |-> TRUE]

\* the geocoding handler is invoked; only a POST carries a body, the other
\* methods are answered before event.body is read
GeoHandlerCall ==
    /\ g.pc \in {"idle", "responded"}
    /\ h.pc \in {"idle", "responded"}
    /\ \E httpMethod \in {"OPTIONS", "GET", "POST"} :
       \E body \in IF httpMethod = "POST" THEN Bodies
                   ELSE {[kind |-> "absent", n |-> 0]} :
          LET gd == [IdleGeo EXCEPT !.httpMethod = httpMethod, !.body = body]
          IN  IF httpMethod = "OPTIONS"
              THEN g' = GeoRespond(gd, GeoPreflight) /\ UNCHANGED batchVars
              ELSE IF httpMethod # "POST"
              THEN /\ g' = GeoRespond(gd, GeoFailure(405, "Method not allowed"))
                   /\ UNCHANGED batchVars
              ELSE LET next == AfterParse(gd, GEO_CACHE)
                   IN  /\ g' = next.g
                       /\ IF next.started
                          THEN batch' = next.batch /\ lookups' = next.lookups
                          ELSE UNCHANGED batchVars
    /\ h' = IdleHandler
    /\ UNCHANGED <<GEO_CACHE, GEO_CACHE_getProperties, geoVars, mapVars>>

\* the query one lookup of the running chunk awaits settles
GeoLookupSettles ==
    /\ g.pc = "geocoding"
    /\ \E j \in DOMAIN lookups :
          /\ Waiting(lookups[j])
          /\ \E resp \in BatchResponses :
                LET next == GeocodeResume(lookups[j], resp, GEO_CACHE)
                IN  /\ lookups' = [lookups EXCEPT ![j] = next.lk]
                    /\ GEO_CACHE' = next.cache
    /\ UNCHANGED <<batch, geoVars, scrapeVars, endpointVars, mapVars>>

\* Promise.all of the chunk settles; after the last chunk the coordinates
\* are attached and the handler answers
GeoChunkSettles ==
    /\ g.pc = "geocoding"
    /\ \A j \in ChunkIndices(batch.i, Len(batch.uniqueTowns)) :
          lookups[j].pc = "done"
    /\ LET next == AfterChunk(batch, lookups, GEO_CACHE)
       IN  /\ batch' = next.batch
           /\ lookups' = next.lookups
           /\ g' = IF next.batch.pc # "done" THEN g
                   ELSE IF next.batch.outcome = "threw"
                   THEN GeoRespond(g, GeoFailure(200, "threw"))
                   ELSE GeoRespond(g, GeoSuccess(next.batch.out))
    /\ UNCHANGED <<GEO_CACHE, geoVars, scrapeVars, mapVars>>

NextGeo == GeoHandlerCall \/ GeoLookupSettles \/ GeoChunkSettles

SpecGeo == Init /\ [][NextGeo]_vars

\* the geocoding handler has just answered a request
GeoAnswers == g' # g /\ g'.pc = "responded"

\* the answer is the failure envelope with this status, and the step
\* started no lookup and left the cache alone
RefusedWith(statusCode) ==
    /\ g'.resp.statusCode = statusCode
    /\ g'.resp.kind = "failure"
    /\ g'.resp.body = "json"
    /\ UNCHANGED <<GEO_CACHE, batch, lookups>>

\* C23 as stated: a POST whose body has no array-valued properties field is
\* answered with status 400 and success false, any other method but OPTIONS
\* with 405 and success false; no lookup is started and the cache is left
\* alone.
C23_MalformedInputGets400 ==
    [][GeoAnswers =>
          /\ (g'.httpMethod = "POST"
                 /\ g'.body.kind \notin {"array", "array-of-null"}) =>
                RefusedWith(400)
          /\ g'.httpMethod \notin {"POST", "OPTIONS"} => RefusedWith(405)]_vars

\* C23: a POST without a body, or whose body parses to JSON without an
\* array-valued properties field, is answered with status 400 and success
\* false; a POST whose body is no JSON with status 200 and success false;
\* any other method but OPTIONS with 405 and success false.  In all these
\* cases no lookup is started and the cache is left alone.
C23_MalformedInputRefused ==
    [][GeoAnswers =>
          /\ (g'.httpMethod = "POST"
                 /\ g'.body.kind \in {"absent", "null", "object",
                                      "properties-string",
                                      "properties-object"}) =>
                RefusedWith(400)
          /\ (g'.httpMethod = "POST" /\ g'.body.kind = "not-json") =>
                RefusedWith(200)
          /\ g'.httpMethod \notin {"POST", "OPTIONS"} => RefusedWith(405)]_vars

\* a body whose properties is a string was refused by a process that has
\* geocoded before
C23_Witness ==
    /\ g.pc = "responded"
    /\ g.httpMethod = "POST"
    /\ g.body.kind = "properties-string"
    /\ g.resp.statusCode = 400
    /\ g.resp.kind = "failure"
    /\ GEO_CACHE # <<>>
    /\ batch.pc = "done"
    /\ \A j \in DOMAIN lookups : lookups[j].pc = "done"

----------------------------------------------------------------------------
\* C27: in the combined variant a listing whose card has no title, or an
\* empty one, gets the title "No title" and the town "No town", causes no
\* lookup and no external call, and is returned with latitude null and
\* longitude null; a listing with a title has its title as town.  Every
\* lookup of the invocation is for the title of a card that has one.
C27_UntitledListingsAreNotGeocoded ==
    h.variant = "combined" =>
        /\ \A u \in DOMAIN lookups :
              /\ \E j \in 1..Len(h.page) :
                    /\ ~NoText(h.page[j].h2)
                    /\ lookups[u].town = CardTitle(h.page[j])
              /\ \A c \in 1..Len(lookups[u].calls) :
                    ~IsPrefix(<<"N", "o", " ">>, lookups[u].calls[c])
        /\ (Responded /\ h.resp.kind = "success") =>
              \A j \in 1..Len(h.page) :
                  LET p == h.resp.listings[j]
                  IN  IF NoText(h.page[j].h2)
                      THEN /\ p.title = NoTitle
                           /\ p.town = NoTown
                           /\ p.latitude = NullVal
                           /\ p.longitude = NullVal
                      ELSE /\ p.title = CardTitle(h.page[j])
                           /\ p.town = p.title

\* a blank card and a full card: one lookup, for the town of the full card
C27_Witness ==
    /\ Responded
    /\ h.variant = "combined"
    /\ h.resp.kind = "success"
    /\ h.page = <<BlankCard, FullCard>>
    /\ Len(lookups) = 1
    /\ lookups[1].calls # <<>>
    /\ h.resp.listings[1].town = NoTown
    /\ h.resp.listings[1].latitude = NullVal
    /\ h.resp.listings[2].town = <<"A">>
    /\ h.resp.listings[2].latitude = Num(46)

----------------------------------------------------------------------------
(* The two endpoints, each with the cache of its own module, serving one   *)
(* request after the other                                                 *)

NextEndpoints == NextScrape \/ NextGeo

SpecEndpoints == Init /\ [][NextEndpoints]_vars

\* C24: an OPTIONS request to the listing handler or to the geocoding
\* handler is answered with status 200, an empty body and the CORS headers,
\* and has no side effect: no browser is obtained, no lookup is started and
\* both caches are left alone.
C24_PreflightHasNoEffect ==
    [][/\ (h' # h /\ h'.httpMethod = "OPTIONS") =>
             /\ h'.pc = "responded"
             /\ h'.resp.statusCode = 200
             /\ h'.resp.body = "empty"
             /\ h'.resp.headers = "cors"
             /\ h'.browser = "none" /\ h'.pages = 0
             /\ \A j \in DOMAIN lookups' : ~Waiting(lookups'[j])
             /\ UNCHANGED <<GEO_CACHE, GEO_CACHE_getProperties>>
       /\ (g' # g /\ g'.httpMethod = "OPTIONS") =>
             /\ g'.pc = "responded"
             /\ g'.resp.statusCode = 200
             /\ g'.resp.body = "empty"
             /\ g'.resp.headers = "cors"
             /\ UNCHANGED <<GEO_CACHE, GEO_CACHE_getProperties, batch, lookups>>]_vars

\* a preflight to the listing handler, after both endpoints have geocoded
C24_Witness ==
    /\ h.pc = "responded"
    /\ h.httpMethod = "OPTIONS"
    /\ h.resp = Preflight
    /\ h.browser = "none"
    /\ GEO_CACHE # <<>>
    /\ GEO_CACHE_getProperties # <<>>

-----------------------------------------------------------------------------
(* The map of src/src/App.jsx.  Coordinates are counted in millionths of a  *)
(* degree and lengths in millimetres.                                      *)

Undefined == [k |-> "undefined", n |-> 0]

\* a double that is not 0 and far below one millionth, as Math.sin(Math.PI)
Tiny == [k |-> "tiny", n |-> 1]

\* the number an operand of + or * is converted to
ToNumber(v) ==
    IF v.k = "null" THEN Num(0)
    ELSE IF v.k = "undefined" THEN NaN
    ELSE v

\* a + b of two operands that are numbers, null or undefined; a double
\* absorbs a tiny one unless it is 0
Plus(a, b) ==
    LET x == ToNumber(a)
        y == ToNumber(b)
    IN  IF IsNaN(x) \/ IsNaN(y) THEN NaN
        ELSE IF y.k = "tiny" THEN (IF x = Num(0) THEN y ELSE x)
        ELSE IF x.k = "tiny" THEN (IF y = Num(0) THEN x ELSE y)
        ELSE Num(x.n + y.n)

\* a / b of integers, rounded towards 0
Quot(a, b) == IF a >= 0 THEN a \div b ELSE 0 - ((0 - a) \div b)

\* v ? ... : ... of a number, null or undefined
TruthyNumber(v) == v.k = "tiny" \/ (v.k = "num" /\ v.n # 0)

\* String(v) inside a template literal
RECURSIVE NatStr(_)
NatStr(n) ==
    IF n < 10 THEN <<Digits[n + 1]>>
    ELSE Append(NatStr(n \div 10), Digits[(n % 10) + 1])

ToStr(v) ==
    IF v.k = "null" THEN <<"n", "u", "l", "l">>
    ELSE IF v.k = "undefined" THEN <<"u", "n", "d", "e", "f", "i", "n", "e", "d">>
    ELSE IF v.k = "NaN" THEN <<"N", "a", "N">>
    ELSE IF v.n < 0 THEN <<"-">> \o NatStr(0 - v.n)
    ELSE NatStr(v.n)

\* p.latitude, p.longitude: undefined when the listing has no such field
Field(p, f) == IF f \in DOMAIN p THEN p[f] ELSE Undefined

\* Math.cos and Math.sin of (2 * Math.PI * i) / n in thousandths, for up to
\* six members; the doubles next to 0 are tiny, not 0
CosOfTurn(i, n) ==
    IF i = 0 THEN Num(1000)
    ELSE IF 2 * i = n THEN Num(-1000)
    ELSE IF 4 * i = n \/ 4 * i = 3 * n THEN Tiny
    ELSE IF 3 * i = n \/ 3 * i = 2 * n THEN Num(-500)
    ELSE IF 6 * i = n \/ 6 * i = 5 * n THEN Num(500)
    ELSE IF 5 * i = n \/ 5 * i = 4 * n THEN Num(309)
    ELSE Num(-809)

SinOfTurn(i, n) ==
    IF i = 0 THEN Num(0)
    ELSE IF 2 * i = n THEN Tiny
    ELSE IF 4 * i = n THEN Num(1000)
    ELSE IF 4 * i = 3 * n THEN Num(-1000)
    ELSE IF 3 * i = n \/ 6 * i = n THEN Num(866)
    ELSE IF 3 * i = 2 * n \/ 6 * i = 5 * n THEN Num(-866)
    ELSE IF 5 * i = n THEN Num(951)
    ELSE IF 5 * i = 2 * n THEN Num(588)
    ELSE IF 5 * i = 3 * n THEN Num(-588)
    ELSE Num(-951)

\* rMeters * Math.cos(angle): thousandths of the unit circle to millimetres
Times(rMeters, t) == IF t.k = "tiny" THEN Tiny ELSE Num(rMeters * t.n)

\* Math.cos((lat * Math.PI) / 180) in thousandths, for the latitudes of the
\* listings; null counts as 0
CosOfLatitude(lat) ==
    LET x == ToNumber(lat)
    IN  IF IsNaN(x) THEN NaN
        ELSE IF x.n = 0 THEN Num(1000)
        ELSE IF x.n = 46240000 THEN Num(692)
        ELSE Num(700)

\* const metersToLat = (m) => m / 111_320
metersToLat(m) ==
    IF m.k = "tiny" THEN Tiny ELSE Num(Quot(m.n * 1000, 111320))

\* const metersToLng = (m, lat) => m / (111_320 * Math.cos((lat * Math.PI) / 180))
metersToLng(m, lat) ==
    LET c == CosOfLatitude(lat)
    IN  IF IsNaN(c) THEN NaN
        ELSE IF m.k = "tiny" THEN Tiny
        ELSE Num(Quot(m.n * 1000, (111320 * c.n) \div 1000))

\* `${p.latitude},${p.longitude}`
CoordKey(p) ==
    ToStr(Field(p, "latitude")) \o <<",">> \o ToStr(Field(p, "longitude"))

\* a grouping in which a listing replaces the group of its coordinates
RECURSIVE groupByCoordLastWins(_)
groupByCoordLastWins(properties) ==
    IF properties = <<>> THEN <<>>
    ELSE LET map == groupByCoordLastWins(SubSeq(properties, 1, Len(properties) - 1))
             p == properties[Len(properties)]
             at == {u \in 1..Len(map) : CoordKey(map[u][1]) = CoordKey(p)}
         IN  IF at = {} THEN Append(map, <<p>>)
             ELSE [map EXCEPT ![CHOOSE u \in at : TRUE] = <<p>>]

\* groupByCoord: the values of a Map from `${latitude},${longitude}` to the
\* listings with that key, in the order the keys were first seen
RECURSIVE groupByCoord(_)
groupByCoord(properties) ==
    IF properties = <<>> THEN <<>>
    ELSE LET map == groupByCoord(SubSeq(properties, 1, Len(properties) - 1))
             p == properties[Len(properties)]
             at == {u \in 1..Len(map) : CoordKey(map[u][1]) = CoordKey(p)}
         IN  IF at = {} THEN Append(map, <<p>>)
             ELSE [map EXCEPT ![CHOOSE u \in at : TRUE] = Append(@, p)]

\* fanOutGroup(group, rMeters = 100): the members of a group of several on a
\* circle around the coordinates of the first; i counts from 0
fanOutGroup(group) ==
    IF Len(group) = 1 THEN group
    ELSE LET lat == Field(group[1], "latitude")
             lng == Field(group[1], "longitude")
         IN  [u \in 1..Len(group) |->
                [f \in DOMAIN group[u] \cup {"latitude", "longitude"} |->
                    IF f = "latitude"
                    THEN Plus(lat, metersToLat(Times(100, CosOfTurn(u - 1, Len(group)))))
                    ELSE IF f = "longitude"
                    THEN Plus(lng, metersToLng(Times(100, SinOfTurn(u - 1, Len(group))), lat))
                    ELSE group[u][f]]]

\* groups.flatMap(f)
RECURSIVE FlatMapFanOut(_)
FlatMapFanOut(groups) ==
    IF groups = <<>> THEN <<>>
    ELSE fanOutGroup(groups[1]) \o FlatMapFanOut(Tail(groups))

\* center={[45.0, 15.0]}
Center == <<Num(45000000), Num(15000000)>>

\* <Marker key={property.id} position={[latitude ? latitude : 45.0,
\* longitude ? longitude : 15.0]}> with the title and the price in its popup
MarkerOf(property) ==
    [key |-> property.id,
     position |-> <<IF TruthyNumber(Field(property, "latitude"))
                    THEN property.latitude ELSE Center[1],
                    IF TruthyNumber(Field(property, "longitude"))
                    THEN property.longitude ELSE Center[2]>>,
     title |-> property.title,
     price |-> property.price]

\* the listings the endpoint can answer with: without coordinates (null),
\* in Kranj, in Koper, or without the two fields
Places == {"null", "Kranj", "Koper", "absent"}

MapListing(id, place) ==
    LET base == [id |-> id, title |-> <<"T">>, price |-> <<"9">>]
    IN  IF place = "absent" THEN base
        ELSE [f \in {"id", "title", "price", "latitude", "longitude"} |->
                IF f = "latitude"
                THEN (IF place = "null" THEN NullVal
                      ELSE IF place = "Kranj" THEN Num(46240000)
                      ELSE Num(45550000))
                ELSE IF f = "longitude"
                THEN (IF place = "null" THEN NullVal
                      ELSE IF place = "Kranj" THEN Num(14360000)
                      ELSE Num(13730000))
                ELSE base[f]]

\* the properties of an answer: up to MaxMarkers listings with ids 1, 2, ...
MapInputs ==
    UNION {{[j \in 1..n |-> MapListing(j, places[j])] :
                places \in [1..n -> Places]} : n \in 0..MaxMarkers}

\* the fetch of useEffect settles: data.success sets the properties, anything
\* else sets the error; finally loading is over
FetchSettles ==
    /\ app.loading
    /\ \/ \E properties \in MapInputs :
             app' = [app EXCEPT !.properties = properties, !.loading = FALSE]
       \/ app' = [app EXCEPT !.error = TRUE, !.loading = FALSE]
    /\ UNCHANGED <<GEO_CACHE, geoVars, batchVars, scrapeVars, endpointVars>>

\* the component renders: the loading text, the error with its Retry
\* button, or the map with one Marker per fanned-out listing
Render ==
    /\ ~app.loading
    /\ app.view = "loading"
    /\ app' = IF app.error THEN [app EXCEPT !.view = "error"]
              ELSE LET fanned == FlatMapFanOut(groupByCoord(app.properties))
                   IN  [app EXCEPT !.view = "map",
                                   !.fanned = fanned,
                                   !.markers = [j \in 1..Len(fanned) |->
                                                   MarkerOf(fanned[j])]]
    /\ UNCHANGED <<GEO_CACHE, geoVars, batchVars, scrapeVars, endpointVars>>

\* window.location.reload() of the Retry button
Retry ==
    /\ app.view = "error"
    /\ app' = IdleApp
    /\ UNCHANGED <<GEO_CACHE, geoVars, batchVars, scrapeVars, endpointVars>>

NextMap == FetchSettles \/ Render \/ Retry

SpecMap == Init /\ [][NextMap]_vars

\* listing j of the answer has neither a latitude nor a longitude: both null
Unlocated(p) ==
    Field(p, "latitude") = NullVal /\ Field(p, "longitude") = NullVal

\* the markers rendered for the listing with this id
MarkersFor(id) == {u \in 1..Len(app.markers) : app.markers[u].key = id}

\* C25: every listing whose latitude and longitude are null is rendered at
\* the default center of the map, also when several such listings are
\* grouped and fanned out together.
C25_MissingCoordinatesAtCenter ==
    app.view = "map" =>
        \A j \in 1..Len(app.properties) :
            Unlocated(app.properties[j]) =>
                \A u \in MarkersFor(app.properties[j].id) :
                    app.markers[u].position = Center

\* the listings of the answer at the coordinates of listing j
SharingCoordinates(j) ==
    {k \in 1..Len(app.properties) :
        /\ Field(app.properties[k], "latitude") = Field(app.properties[j], "latitude")
        /\ Field(app.properties[k], "longitude") = Field(app.properties[j], "longitude")}

\* C26: the map renders exactly one marker per listing: the fanned-out
\* sequence has the ids of the answer, each as often as the answer has it; a
\* listing that shares its coordinates with no other is passed on unchanged,
\* and every other listing keeps all its fields except latitude and
\* longitude.
C26_OneMarkerPerListing ==
    app.view = "map" =>
        /\ Len(app.markers) = Len(app.properties)
        /\ Len(app.fanned) = Len(app.properties)
        /\ \A j \in 1..Len(app.properties) :
              LET p == app.properties[j]
                  same == {k \in 1..Len(app.properties) : app.properties[k].id = p.id}
                  out == {u \in 1..Len(app.fanned) : app.fanned[u].id = p.id}
              IN  /\ Cardinality(MarkersFor(p.id)) = Cardinality(same)
                  /\ Cardinality(out) = Cardinality(same)
                  /\ \A u \in out :
                        IF Cardinality(SharingCoordinates(j)) = 1
                        THEN app.fanned[u] = p
                        ELSE /\ DOMAIN p \subseteq DOMAIN app.fanned[u]
                             /\ DOMAIN app.fanned[u] \subseteq
                                   DOMAIN p \cup {"latitude", "longitude"}
                             /\ \A f \in DOMAIN p \ {"latitude", "longitude"} :
                                   app.fanned[u][f] = p[f]

\* two listings in Kranj around one without coordinates: the two are fanned
\* out north and south of Kranj, the third stands alone at the center
C26_Witness ==
    /\ app.view = "map"
    /\ app.properties =
          <<MapListing(1, "Kranj"), MapListing(2, "null"), MapListing(3, "Kranj")>>
    /\ Len(app.markers) = 3
    /\ app.markers[1].key = 1
    /\ app.markers[1].position = <<Num(46240898), Num(14360000)>>
    /\ app.markers[2].key = 3
    /\ app.markers[2].position = <<Num(46239102), Num(14360000)>>
    /\ app.markers[3].key = 2
    /\ app.markers[3].position = Center

-----------------------------------------------------------------------------
\* the towns the listings of the batch name
TownsOfBatch == {ListingKey(j) : j \in 1..Len(batch.properties)} \ {<<>>}

\* the invocations of geocodeTown the batch has made
Invoked == {u \in DOMAIN lookups : lookups[u].pc # "idle"}

\* C28: within one batch each distinct trimmed town is resolved at most
\* once: no two invocations of geocodeTown are for the same town, each is
\* for a town some listing names, and when the batch returns there were as
\* many invocations as the listings name distinct towns (a listing without a
\* town, or with the town "No town", asks for none).
C28_OneLookupPerTown ==
    /\ \A u, v \in Invoked : lookups[u].town = lookups[v].town => u = v
    /\ \A u \in Invoked : Trim(OrEmpty(lookups[u].raw)) \in TownsOfBatch
    /\ Cardinality(Invoked) <= Cardinality(TownsOfBatch)
    /\ (batch.pc = "done" /\ batch.outcome = "returned") =>
          Cardinality(Invoked) = Cardinality(TownsOfBatch)

\* seven listings that name four towns, one of them twice, and two listings
\* that name none
C28_Witness ==
    /\ batch.pc = "done"
    /\ batch.outcome = "returned"
    /\ Len(batch.properties) = 7
    /\ Cardinality(Invoked) = 4
    /\ \A u \in Invoked : lookups[u].calls # <<>>
    /\ batch.out[1].latitude = Num(46)
    /\ batch.out[2].latitude = Num(46)

-----------------------------------------------------------------------------
\* the geocoding of the invocation has begun
GeocodingBegun == batch.pc # "idle" \/ \E u \in DOMAIN lookups : lookups[u].pc # "idle"

\* the steps of the combined handler up to the close follow one another:
\* where the handler stands tells which steps have succeeded, extraction has
\* run only on a loaded page on which the content was found, geocoding has
\* begun only after an extraction without error, never after a scrape error,
\* and a success is answered only when the geocoding is over
StepsInOrder ==
    /\ h.pc \in {"newPage", "setup", "goto", "wait", "evaluate", "close"} =>
          h.browser = "open"
    /\ h.pc \in {"setup", "goto", "wait", "evaluate", "close"} => h.pages = 1
    /\ h.pc \in {"launch", "newPage", "setup", "goto"} => ~h.loaded
    /\ h.pc \in {"wait", "evaluate", "close", "geocoding"} => h.loaded
    /\ h.pc \in {"launch", "newPage", "setup", "goto", "wait", "evaluate"} =>
          ~h.evaluated /\ ~GeocodingBegun
    /\ h.pc \in {"close", "geocoding"} => h.evaluated /\ h.error = "none"
    /\ h.pc = "close" => ~GeocodingBegun
    /\ h.loaded => h.browser # "none"
    /\ h.evaluated => h.loaded /\ h.page # <<>>
    /\ h.error \in {"launch", "newPage", "setup", "navigation", "content-timeout"} =>
          ~h.evaluated
    /\ h.error # "none" => ~GeocodingBegun
    /\ GeocodingBegun =>
          /\ h.pc \in {"geocoding", "responded"}
          /\ h.evaluated
          /\ h.error = "none"
    /\ (h.pc = "responded" /\ h.resp.kind = "success") =>
          /\ h.evaluated
          /\ batch.pc = "done"
          /\ batch.outcome = "returned"
          /\ \A u \in DOMAIN lookups : lookups[u].pc = "done"
          /\ h.resp.listings = batch.out

\* C29 as it stands: the pipeline of the combined handler is strictly
\* ordered, a step runs only if every earlier step succeeded, and no
\* geocoding call is issued while the browser of the invocation is open.
C29_GeocodingOnlyWithBrowserClosed ==
    h.variant = "combined" =>
        /\ StepsInOrder
        /\ GeocodingBegun => h.browser = "closed" /\ ~h.closeFailed

\* C29: the pipeline of the combined handler is ordered: browser, page,
\* navigation, wait for the content, extraction, close, geocoding,
\* response.  Every step up to the extraction runs only if the steps before
\* it succeeded; geocoding begins only after the close of the browser has
\* settled, and unless that close failed the browser is closed by then; no
\* geocoding call is issued after a scrape failure.
C29_PipelineInOrder ==
    h.variant = "combined" =>
        /\ StepsInOrder
        /\ GeocodingBegun => h.closeFailed \/ h.browser = "closed"

\* a success whose close failed and left the browser open: the town of the
\* page was looked up all the same
C29_Witness ==
    /\ h.variant = "combined"
    /\ h.pc = "responded"
    /\ h.resp.kind = "success"
    /\ h.closeFailed
    /\ h.browser = "open"
    /\ Len(lookups) = 1
    /\ lookups[1].calls # <<>>
    /\ h.resp.listings[1].latitude = Num(46)

-----------------------------------------------------------------------------
\* the invocation is for a town that was not in the cache when it started
Uncached ==
    /\ Started
    /\ TownNamed(call.raw) \notin {<<>>, NoTown}
    /\ TownNamed(call.raw) \notin DOMAIN cacheAtCall

\* an invocation for an uncached town has issued at least 1 and at most
\* 2 + c queries, c the commas of the town; it leaves the cache alone while
\* it waits, and when it has returned the cache holds, next to what it held,
\* the value returned under the trimmed town
BoundedCalls ==
    Uncached =>
        /\ Len(call.calls) >= 1
        /\ Len(call.calls) <= 2 + Commas(TownNamed(call.raw))
        /\ Waiting(call) => GEO_CACHE = cacheAtCall
        /\ Done =>
              /\ call.outcome = "returned"
              /\ DOMAIN GEO_CACHE = DOMAIN cacheAtCall \cup {TownNamed(call.raw)}
              /\ GEO_CACHE[TownNamed(call.raw)] = call.ret
              /\ \A t \in DOMAIN cacheAtCall : GEO_CACHE[t] = cacheAtCall[t]

\* C30: geocodeTown always terminates with a bounded number of external
\* calls: for an uncached town with c commas it issues at least 1 and at
\* most 2 + c queries, whatever the API answers, and writes the cache once,
\* when it returns, under the trimmed town and with the value it returns.
C30_TerminatesWithBoundedCalls ==
    /\ []BoundedCalls
    /\ Waiting(call) ~> Done

\* a town with two commas that was found by the last query of the chain
C30_Witness ==
    /\ Done
    /\ call.raw = TownOf(2)
    /\ TownOf(2) \notin DOMAIN cacheAtCall
    /\ Len(call.calls) = 4
    /\ call.ret = [lat |-> Num(46), lon |-> Num(14)]
    /\ GEO_CACHE[TownOf(2)] = call.ret

====
